---------------------------- MODULE Spec2Model ----------------------------
(* A model of the reference-library front end: the collection breadcrumbs *)
(* (api.js), the notes index loader (notes.js), the load cycle of App     *)
(* (App.jsx) and the search ranking of the Home page (Home.jsx).          *)
(* JavaScript strings are TLA+ strings; a character is a string of        *)
(* length 1, read with SubSeq.  null/undefined/false are the value NULL   *)
(* where a field may hold them.                                           *)
EXTENDS Integers, Sequences, FiniteSets, TLC

(***************************************************************************)
(* Bounds of the model                                                     *)
(***************************************************************************)
MaxColls == 3

MaxRows == 2

MaxEntries == 3

MaxStoreColls == 2
MaxFields == 2
MaxCreators == 3

(***************************************************************************)
(* JavaScript values and string primitives                                 *)
(***************************************************************************)
\* null / undefined / false / "" of a field: every falsy value the code
\* tests with `x || ...`, `!x` or `if (x)` behaves as the empty string here.
NULL == ""

Ch(s, i) == SubSeq(s, i, i)

UpperChars == "ABCDEFGHIJKLMNOPQRSTUVWXYZ"

LowerChars == "abcdefghijklmnopqrstuvwxyz"

DigitChars == "0123456789"

CharsOf(chars) == {Ch(chars, i) : i \in 1..Len(chars)}

UpperSet == CharsOf(UpperChars)

LowerSet == CharsOf(LowerChars)

DigitSet == CharsOf(DigitChars)

IsDigit(c) == c \in DigitSet

\* \s of a JavaScript regular expression, over the characters the inputs use
IsSpace(c) == c = " "

\* the letter at the same place of the other alphabet
LowerMap ==
  [c \in UpperSet |-> Ch(LowerChars, CHOOSE i \in 1..Len(UpperChars) : Ch(UpperChars, i) = c)]

UpperMap ==
  [c \in LowerSet |-> Ch(UpperChars, CHOOSE i \in 1..Len(LowerChars) : Ch(LowerChars, i) = c)]

LowerCh(c) == IF c \in UpperSet THEN LowerMap[c] ELSE c

UpperCh(c) == IF c \in LowerSet THEN UpperMap[c] ELSE c

RECURSIVE toLowerCase(_)
toLowerCase(s) ==
  IF Len(s) = 0 THEN "" ELSE LowerCh(Ch(s, 1)) \o toLowerCase(SubSeq(s, 2, Len(s)))

RECURSIVE toUpperCase(_)
toUpperCase(s) ==
  IF Len(s) = 0 THEN "" ELSE UpperCh(Ch(s, 1)) \o toUpperCase(SubSeq(s, 2, Len(s)))

RECURSIVE trimStart(_)
trimStart(s) ==
  IF Len(s) > 0 /\ IsSpace(Ch(s, 1)) THEN trimStart(SubSeq(s, 2, Len(s))) ELSE s

RECURSIVE trimEnd(_)
trimEnd(s) ==
  IF Len(s) > 0 /\ IsSpace(Ch(s, Len(s))) THEN trimEnd(SubSeq(s, 1, Len(s) - 1)) ELSE s

trim(s) == trimEnd(trimStart(s))

startsWith(s, p) == Len(p) <= Len(s) /\ SubSeq(s, 1, Len(p)) = p

endsWith(s, p) == Len(p) <= Len(s) /\ SubSeq(s, Len(s) - Len(p) + 1, Len(s)) = p

includes(s, p) == \E i \in 1..(Len(s) - Len(p) + 1) : SubSeq(s, i, i + Len(p) - 1) = p

\* s.replace(/\s+/g, " ")
RECURSIVE collapseWs(_)
collapseWs(s) ==
  IF Len(s) = 0 THEN ""
  ELSE IF IsSpace(Ch(s, 1))
    THEN " " \o collapseWs(trimStart(s))
    ELSE Ch(s, 1) \o collapseWs(SubSeq(s, 2, Len(s)))

\* s.replace(/[{}]/g, "")
RECURSIVE stripBraces(_)
stripBraces(s) ==
  IF Len(s) = 0 THEN ""
  ELSE IF Ch(s, 1) \in {"{", "}"}
    THEN stripBraces(SubSeq(s, 2, Len(s)))
    ELSE Ch(s, 1) \o stripBraces(SubSeq(s, 2, Len(s)))

\* s.match(/\d{4}/)?.[0] || "" : the first four digits in a row, or ""
RECURSIVE firstFourDigits(_)
firstFourDigits(s) ==
  IF Len(s) < 4 THEN ""
  ELSE IF \A i \in 1..4 : IsDigit(Ch(s, i))
    THEN SubSeq(s, 1, 4)
    ELSE firstFourDigits(SubSeq(s, 2, Len(s)))

\* s.split(sep)[0] : the text before the first separator (all of s without one)
RECURSIVE splitFirst(_, _)
splitFirst(s, sep) ==
  IF Len(s) = 0 \/ Ch(s, 1) = sep THEN ""
  ELSE Ch(s, 1) \o splitFirst(SubSeq(s, 2, Len(s)), sep)

\* parts.filter(Boolean)
RECURSIVE filterBoolean(_)
filterBoolean(parts) ==
  IF parts = <<>> THEN <<>>
  ELSE IF Head(parts) = NULL
    THEN filterBoolean(Tail(parts))
    ELSE <<Head(parts)>> \o filterBoolean(Tail(parts))

\* parts.join(sep)
RECURSIVE join(_, _)
join(parts, sep) ==
  IF parts = <<>> THEN ""
  ELSE IF Len(parts) = 1 THEN Head(parts)
  ELSE Head(parts) \o sep \o join(Tail(parts), sep)

\* the sequences over S of length at most n
RECURSIVE SeqsUpTo(_, _)
SeqsUpTo(S, n) ==
  IF n = 0 THEN {<<>>}
  ELSE LET shorter == SeqsUpTo(S, n - 1)
       IN  shorter \cup {Append(q, x) : q \in shorter, x \in S}

Range(f) == {f[i] : i \in DOMAIN f}

\* a Map or a plain object: a function from its keys
EmptyMap == [k \in {} |-> NULL]

MapSet(m, k, v) == [x \in DOMAIN m \cup {k} |-> IF x = k THEN v ELSE m[x]]

MapHas(m, k) == k \in DOMAIN m

\* a plain object whose key order matters: its [key, value] pairs in
\* insertion order, the keys unique
ObjHas(o, k) == \E i \in 1..Len(o) : o[i][1] = k

ObjGet(o, k) == o[CHOOSE i \in 1..Len(o) : o[i][1] = k][2]

ObjSet(o, k, v) ==
  IF ObjHas(o, k)
    THEN [i \in 1..Len(o) |-> IF o[i][1] = k THEN <<k, v>> ELSE o[i]]
    ELSE Append(o, <<k, v>>)

RECURSIVE fromEntries(_)
fromEntries(pairs) ==
  IF pairs = <<>> THEN <<>>
  ELSE LET rest == fromEntries(SubSeq(pairs, 1, Len(pairs) - 1))
           last == pairs[Len(pairs)]
       IN  ObjSet(rest, last[1], last[2])

\* Array.prototype.sort with a comparator that orders the elements
\* consistently: the sort is stable, so an element comes after those that
\* compare before it and after the earlier ones that compare equal to it.
\* before[i, j] is "the comparator is negative on (s[i], s[j])".
sortedStable(s, before) ==
  LET n == Len(s)
      rank(i) == Cardinality({j \in 1..n : \/ before[j, i]
                                            \/ (~before[i, j] /\ j < i)}) + 1
  IN  [r \in 1..n |-> s[CHOOSE i \in 1..n : rank(i) = r]]

VARIABLES
  \* ---- api.js: one call of buildCollectionPaths
  collsData,   \* the argument: a sequence of {key, name, parentCollection}
  pathPc,      \* "next" | "walk" | "done": where buildCollectionPaths is
  pathI,       \* index in collsData of the collection path(c) is called for
  pathParts,   \* parts
  pathParent,  \* parent
  pathSteps,   \* iterations of the while loop of the current path(c) call
  builtPaths,  \* the [key, path] pairs collsData.map has produced so far
  \* ---- notes.js and the item mapping of App.loadData, on one item
  rows,        \* the rows of the annotation index document
  fetched,     \* the index document was fetched and parsed
  notesThrew,  \* fetchNotesIndex rejected
  notesIndex,  \* {keys, dois, titleYears, urlByKey} as loadData uses it
  doc,         \* the JSON document the index URL serves
  items,       \* it.data of the items fetchItems returned for one collection
  clean,       \* items.map(...).filter(Boolean)
  reconPc,     \* "index" | "map" | "done"
  \* ---- App.jsx: the state of App and its load cycles
  storeColls,  \* what fetchCollections returns when it succeeds (c.data of each)
  mounted,     \* App is mounted
  torn,        \* the effect runs that React has torn down
  collections, \* useState([])
  allEntries,  \* useState({})
  counts,      \* useState({})
  paths,       \* useState({})
  loading,     \* useState(true)
  loadPc,      \* per effect run: "idle" | "fetching" | "items" | "done" | "caught" | "hung"
  lColls,      \* per run: "pending" | "ok" | "failed", the fetchCollections promise
  lNotes,      \* per run: the promise fetchNotesIndex().catch(...) returns
  lNotesFailed, \* per run: fetchNotesIndex itself rejected
  lItemsFailed, \* per run: a fetchItems call rejected
  lPaths,      \* per run: builtPaths
  lList,       \* per run: collectionsList
  lI,          \* per run: the index in children of the collection being fetched
  lEntryMap,   \* per run: entryMap
  lCountMap,   \* per run: countMap
  \* ---- Home.jsx: the state of Home
  hAllEntries, \* allEntries of the outlet context
  urlParams,   \* the collection and q parameters Home mounted with
  homePc,      \* "mount" | "ready": the mount effect has run
  query,       \* useState("")
  activeCollection, \* useState(null)
  results,     \* the results memo of the last render
  view,        \* what the last render shows, and its legacyEntries memo
  url,         \* the collection and q parameters of the current URL
  urlPending   \* the URL effect is scheduled: its dependencies changed

pathVars == <<collsData, pathPc, pathI, pathParts, pathParent, pathSteps, builtPaths>>

reconVars == <<doc, rows, fetched, notesThrew, notesIndex, items, clean, reconPc>>

\* the first fetched item
item == items[1]

appState == <<collections, allEntries, counts, paths, loading>>

loadVars ==
  <<loadPc, lColls, lNotes, lNotesFailed, lItemsFailed, lPaths, lList, lI, lEntryMap, lCountMap>>

appVars == <<storeColls, mounted, torn, appState, loadVars>>

homeVars ==
  <<hAllEntries, urlParams, homePc, query, activeCollection, results, view, url, urlPending>>

vars == <<pathVars, reconVars, appVars, homeVars>>

(***************************************************************************)
(* api.js: buildCollectionPaths                                            *)
(***************************************************************************)
PathSep == " → "

CollKey(i) == "K" \o ToString(i)

\* names of collections, some with a leading number
NameList == <<"12 M", "2 T", "Misc">>

CollName(i) == IF i <= Len(NameList) THEN NameList[i] ELSE "N" \o ToString(i)

\* a parent reference that names no collection of the set
UnknownKey == "KX"

CollKeys == {CollKey(i) : i \in 1..MaxColls}

\* the collection lists the store can return: keys are unique; a parent
\* reference is absent (false), a key of the list (its own included, so the
\* links may form a cycle) or a key that is not in the list
CollLists ==
  UNION {
    { [i \in 1..n |-> [key |-> CollKey(i), name |-> CollName(i),
                       parentCollection |-> p[i]]]
      : p \in [1..n -> {CollKey(j) : j \in 1..n} \cup {NULL, UnknownKey}] }
    : n \in 0..MaxColls }

\* lookup[c.key] = c for each c of collsData, the last one with a key winning
Lookup(cs) ==
  [k \in {cs[i].key : i \in 1..Len(cs)} |->
     cs[CHOOSE i \in 1..Len(cs) :
          cs[i].key = k /\ \A j \in (i + 1)..Len(cs) : cs[j].key # k]]

\* the condition of the while loop: parent && lookup[parent]
WalkGoesOn(cs, parent) == parent # NULL /\ parent \in DOMAIN Lookup(cs)

\* a loop body that adds the name of the parent at the end of parts
walkPartsPush(cs, parts, parent) == parts \o <<Lookup(cs)[parent].name>>

\* a loop body that does not go on to the parent of the parent
walkParentStop(cs, parent) == NULL

\* parts and parent after one iteration of the loop: lines 278-279
walkParts(cs, parts, parent) == <<Lookup(cs)[parent].name>> \o parts

walkParent(cs, parent) == Lookup(cs)[parent].parentCollection

\* path(c) of a walk that ends
RECURSIVE walkUp(_, _, _)
walkUp(cs, parts, parent) ==
  IF WalkGoesOn(cs, parent)
    THEN walkUp(cs, walkParts(cs, parts, parent), walkParent(cs, parent))
    ELSE parts

pathOf(cs, c) == join(walkUp(cs, <<c.name>>, c.parentCollection), PathSep)

\* the walk from parent leaves the loop within fuel iterations
RECURSIVE walkEnds(_, _, _)
walkEnds(cs, parent, fuel) ==
  IF ~WalkGoesOn(cs, parent) THEN TRUE
  ELSE IF fuel = 0 THEN FALSE
  ELSE walkEnds(cs, walkParent(cs, parent), fuel - 1)

\* path(c) never returns: the parent links from c lead into a cycle
pathHangs(cs, c) == ~walkEnds(cs, c.parentCollection, Len(cs))

\* buildCollectionPaths of a list on which every walk ends: line 284
buildCollectionPaths(cs) == fromEntries([i \in 1..Len(cs) |-> <<cs[i].key, pathOf(cs, cs[i])>>])

\* the cap on the modelled iterations of one walk; a walk that visits no
\* collection twice makes fewer than Len(collsData) iterations
MaxWalk == MaxColls + 2

PathsInit ==
  /\ collsData \in CollLists
  /\ pathPc = "next"
  /\ pathI = 0
  /\ pathParts = <<>>
  /\ pathParent = NULL
  /\ pathSteps = 0
  /\ builtPaths = <<>>

\* collsData.map calls path(c) for the next collection: lines 275-276
PathEnter ==
  /\ pathPc = "next"
  /\ pathI < Len(collsData)
  /\ pathI' = pathI + 1
  /\ pathParts' = <<collsData[pathI + 1].name>>
  /\ pathParent' = collsData[pathI + 1].parentCollection
  /\ pathSteps' = 0
  /\ pathPc' = "walk"
  /\ UNCHANGED <<collsData, builtPaths>>
  /\ UNCHANGED <<reconVars, appVars, homeVars>>

\* one iteration of the while loop: lines 277-280
PathStep ==
  /\ pathPc = "walk"
  /\ WalkGoesOn(collsData, pathParent)
  /\ pathSteps < MaxWalk
  /\ pathParts' = walkParts(collsData, pathParts, pathParent)
  /\ pathParent' = walkParent(collsData, pathParent)
  /\ pathSteps' = pathSteps + 1
  /\ UNCHANGED <<collsData, pathPc, pathI, builtPaths>>
  /\ UNCHANGED <<reconVars, appVars, homeVars>>

\* the loop ends and path(c) returns parts.join(" → "): line 281
PathReturn ==
  /\ pathPc = "walk"
  /\ ~WalkGoesOn(collsData, pathParent)
  /\ builtPaths' = Append(builtPaths, <<collsData[pathI].key, join(pathParts, PathSep)>>)
  /\ pathPc' = "next"
  /\ UNCHANGED <<collsData, pathI, pathParts, pathParent, pathSteps>>
  /\ UNCHANGED <<reconVars, appVars, homeVars>>

\* the map is over and Object.fromEntries returns: line 284
PathsFinish ==
  /\ pathPc = "next"
  /\ pathI = Len(collsData)
  /\ pathPc' = "done"
  /\ builtPaths' = fromEntries(builtPaths)
  /\ UNCHANGED <<collsData, pathI, pathParts, pathParent, pathSteps>>
  /\ UNCHANGED <<reconVars, appVars, homeVars>>

PathsNext == PathEnter \/ PathStep \/ PathReturn \/ PathsFinish

\* buildCollectionPaths is not running
PathsIdle ==
  /\ collsData = <<>>
  /\ pathPc = "done"
  /\ pathI = 0
  /\ pathParts = <<>>
  /\ pathParent = NULL
  /\ pathSteps = 0
  /\ builtPaths = <<>>

(***************************************************************************)
(* notes.js                                                                *)
(***************************************************************************)
\* norm: String(s || "").toLowerCase().replace(/\s+/g, " ").trim()
norm(s) == trim(collapseWs(toLowerCase(s)))

\* .replace(/^https?:\/\/(dx\.)?doi\.org\//, "")
stripDoiUrl(s) ==
  LET prefixes == {"http://doi.org/", "https://doi.org/",
                   "http://dx.doi.org/", "https://dx.doi.org/"}
  IN  IF \E p \in prefixes : startsWith(s, p)
        THEN LET p == CHOOSE q \in prefixes : startsWith(s, q)
             IN  SubSeq(s, Len(p) + 1, Len(s))
        ELSE s

\* a replace that keeps a leading "doi:"
keepDoiScheme(s) == s

\* .replace(/^doi:/, "")
stripDoiScheme(s) == IF startsWith(s, "doi:") THEN SubSeq(s, 5, Len(s)) ELSE s

normDoi(doi) == trim(stripDoiScheme(stripDoiUrl(norm(doi))))

\* str.split("/").pop()
RECURSIVE lastSegment(_)
lastSegment(s) ==
  IF includes(s, "/") THEN lastSegment(SubSeq(s, 2, Len(s))) ELSE s

\* seg.replace(/\.(html?|md)$/i, "")
stripNoteExt(seg) ==
  LET l == toLowerCase(seg)
  IN  IF endsWith(l, ".html") THEN SubSeq(seg, 1, Len(seg) - 5)
      ELSE IF endsWith(l, ".htm") THEN SubSeq(seg, 1, Len(seg) - 4)
      ELSE IF endsWith(l, ".md") THEN SubSeq(seg, 1, Len(seg) - 3)
      ELSE seg

citekeyFromPath(p) ==
  IF p = NULL THEN NULL
  ELSE LET str == trim(p)
           noSlash == IF endsWith(str, "/") THEN SubSeq(str, 1, Len(str) - 1) ELSE str
       IN  stripNoteExt(lastSegment(noSlash))

NotesOrigin == "https://munomono.github.io"

\* the directory of NOTES_INDEX_URL, against which a relative link resolves
NotesDir == NotesOrigin \o "/reading-notes/docs/"

\* new URL(link, base).toString(), for links without dot segments or
\* characters that need escaping: absolute, root-relative or relative
resolveUrl(link) ==
  IF startsWith(link, "http://") \/ startsWith(link, "https://") THEN link
  ELSE IF startsWith(link, "/") THEN NotesOrigin \o link
  ELSE NotesDir \o link

buildUrlFromLetterSlug(letter, slug) ==
  LET first == IF letter # NULL THEN letter ELSE IF slug # NULL THEN slug ELSE "X"
      L == toUpperCase(Ch(first, 1))
      s == IF slug # NULL THEN slug ELSE "unknown"
  IN  NotesOrigin \o "/reading-notes/docs/" \o L \o "/" \o s

noteUrlForCitekey(citekey) ==
  buildUrlFromLetterSlug(IF citekey # NULL THEN Ch(citekey, 1) ELSE "X", citekey)

\* the title+year key a row is recorded under: lines 116-120 (NULL for none)
rowTitleYearKey(titleRaw, yearRaw) ==
  LET t == norm(stripBraces(titleRaw))
      y == firstFourDigits(yearRaw)
  IN  IF t # NULL /\ y # NULL THEN t \o "@" \o y ELSE NULL

EmptyIndex ==
  [keys |-> {}, dois |-> EmptyMap, titleYears |-> EmptyMap, urlByKey |-> EmptyMap]

\* a row of the index: a record with the fields the loop reads (slug stands
\* for slug/citation_key/key/id, link for href/url/path, year for
\* year/date/published), or a value that is no object (null)
NullRow ==
  [isRecord |-> FALSE, letter |-> NULL, slug |-> NULL, link |-> NULL,
   doi |-> NULL, title |-> NULL, year |-> NULL]

\* String(slug || citeFromLink || "").trim(): lines 84-89
rowCitekey(r) ==
  trim(IF r.slug # NULL THEN r.slug ELSE citekeyFromPath(r.link))

\* an iteration that records a row whether or not it has a citekey
indexRowNoSkip(idx, r) ==
  LET citekey == rowCitekey(r)
      absUrl == IF r.link # NULL THEN resolveUrl(r.link)
                ELSE buildUrlFromLetterSlug(r.letter, citekey)
      nd == normDoi(r.doi)
      ty == rowTitleYearKey(r.title, r.year)
  IN  [keys |-> idx.keys \cup {citekey},
       urlByKey |-> MapSet(idx.urlByKey, citekey, absUrl),
       dois |-> IF r.doi # NULL /\ nd # NULL
                  THEN MapSet(idx.dois, nd, citekey) ELSE idx.dois,
       titleYears |-> IF ty # NULL
                        THEN MapSet(idx.titleYears, ty, citekey)
                        ELSE idx.titleYears]

\* one iteration of the row loop on a row that is a record: lines 83-120
indexRow(idx, r) ==
  LET citekey == rowCitekey(r)
      absUrl == IF r.link # NULL THEN resolveUrl(r.link)
                ELSE buildUrlFromLetterSlug(r.letter, citekey)
      nd == normDoi(r.doi)
      ty == rowTitleYearKey(r.title, r.year)
  IN  IF citekey = NULL THEN idx
      ELSE [keys |-> idx.keys \cup {citekey},
            urlByKey |-> MapSet(idx.urlByKey, citekey, absUrl),
            dois |-> IF r.doi # NULL /\ nd # NULL
                       THEN MapSet(idx.dois, nd, citekey) ELSE idx.dois,
            titleYears |-> IF ty # NULL
                             THEN MapSet(idx.titleYears, ty, citekey)
                             ELSE idx.titleYears]

\* a JSON document: null (any falsy value), a scalar that is truthy, an
\* array of rows, or an object, given as its [key, value] pairs in the
\* order of Object.keys; a value is an array of rows or something else
NullDoc == [kind |-> "null", rows |-> <<>>, fields |-> <<>>]

ScalarDoc == [kind |-> "scalar", rows |-> <<>>, fields |-> <<>>]

ArrayDoc(rs) == [kind |-> "array", rows |-> rs, fields |-> <<>>]

ObjectDoc(fs) == [kind |-> "object", rows |-> <<>>, fields |-> fs]

ArrayValue(rs) == [isArray |-> TRUE, rows |-> rs]

OtherValue == [isArray |-> FALSE, rows |-> <<>>]

\* Array.isArray(data[k])
isArrayField(data, k) == ObjHas(data.fields, k) /\ ObjGet(data.fields, k).isArray

\* keys.flatMap((k) => data[k]): line 38
RECURSIVE flatMapFields(_)
flatMapFields(fs) ==
  IF fs = <<>> THEN <<>> ELSE Head(fs)[2].rows \o flatMapFields(Tail(fs))

\* flattenIndexJson: lines 29-41
flattenIndexJson(data) ==
  IF data.kind = "null" THEN <<>>
  ELSE IF data.kind = "array" THEN data.rows
  ELSE IF isArrayField(data, "entries") THEN ObjGet(data.fields, "entries").rows
  ELSE IF isArrayField(data, "items") THEN ObjGet(data.fields, "items").rows
  ELSE IF Len(data.fields) > 0 /\ \A i \in 1..Len(data.fields) : data.fields[i][2].isArray
    THEN flatMapFields(data.fields)
  ELSE <<>>

\* the row loop: reading r.letter of a row that is null throws a TypeError,
\* which ends the loop and rejects the promise fetchNotesIndex returned
RECURSIVE indexRows(_, _)
indexRows(idx, rs) ==
  IF rs = <<>> THEN [rejected |-> FALSE, value |-> idx]
  ELSE IF ~Head(rs).isRecord THEN [rejected |-> TRUE, value |-> EmptyIndex]
  ELSE indexRows(indexRow(idx, Head(rs)), Tail(rs))

\* fetchNotesIndex: a failed fetch, a non-OK response or invalid JSON reject
fetchNotesIndex(gotJson, data) ==
  IF ~gotJson THEN [rejected |-> TRUE, value |-> EmptyIndex]
  ELSE indexRows(EmptyIndex, flattenIndexJson(data))

(***************************************************************************)
(* App.jsx: what loadData does with the notes index and with one item     *)
(***************************************************************************)
\* the copies of norm and normDoi that App.jsx defines: lines 135-145
normApp(s) == trim(collapseWs(toLowerCase(s)))

normDoiApp(doi) == trim(stripDoiScheme(stripDoiUrl(normApp(doi))))

\* fetchNotesIndex() without a handler: the promise as it is
notesUncaught(res) == res

\* fetchNotesIndex().catch(...): a promise fulfilled with the empty index
\* when fetchNotesIndex rejected: lines 162-170
notesOrEmpty(res) ==
  [rejected |-> FALSE, value |-> IF res.rejected THEN EmptyIndex ELSE res.value]

\* const year = (d.date || "").split("-")[0] || "": line 237
itemYear(date) == splitFirst(date, "-")

\* the title+year key an item is looked up under: lines 255-258 (NULL for none)
itemTitleYearKey(titleRaw, year) ==
  LET t == trim(stripBraces(normApp(titleRaw)))
      y == trim(year)
  IN  IF t # NULL /\ y # NULL THEN t \o "@" \o y ELSE NULL

\* tier 1, the DOI: lines 248-252
doiTier(d, idx) ==
  LET nd == normDoiApp(d.DOI)
  IN  IF d.DOI # NULL /\ nd # NULL /\ MapHas(idx.dois, nd) THEN idx.dois[nd] ELSE NULL

\* tier 2, title+year: lines 254-262
titleYearTier(titleRaw, year, idx) ==
  LET k == itemTitleYearKey(titleRaw, year)
  IN  IF k # NULL /\ MapHas(idx.titleYears, k) THEN idx.titleYears[k] ELSE NULL

\* a tier 3 that does not look the key up
keyTierAny(d, idx) == d.key

\* tier 3, the item's own key: lines 264-271
keyTier(d, idx) == IF d.key # NULL /\ d.key \in idx.keys THEN d.key ELSE NULL

\* the tiers in another order: title+year before the DOI
resolveCitekeyTitleFirst(d, titleRaw, year, idx) ==
  LET t2 == titleYearTier(titleRaw, year, idx)
      t1 == IF t2 = NULL THEN doiTier(d, idx) ELSE t2
  IN  IF t1 = NULL THEN keyTier(d, idx) ELSE t1

\* tiers in which a DOI that misses ends the matching
resolveCitekeyStopAtDoi(d, titleRaw, year, idx) ==
  LET t2 == titleYearTier(titleRaw, year, idx)
  IN  IF d.DOI # NULL THEN doiTier(d, idx)
      ELSE IF t2 = NULL THEN keyTier(d, idx) ELSE t2

\* notesCitekey: each tier is tried only while notesCitekey is still null
resolveCitekey(d, titleRaw, year, idx) ==
  LET t1 == doiTier(d, idx)
      t2 == IF t1 = NULL THEN titleYearTier(titleRaw, year, idx) ELSE t1
  IN  IF t2 = NULL THEN keyTier(d, idx) ELSE t2

\* creators with roles: lines 214-229
mapCreator(cr) ==
  LET firstName == cr.firstName
      lastName == IF cr.lastName # NULL THEN cr.lastName ELSE cr.name
  IN  [creatorType |-> cr.creatorType, firstName |-> firstName, lastName |-> lastName,
       full |-> trim(join(filterBoolean(<<firstName, lastName>>), " "))]

hasName(cr) == cr.lastName # NULL \/ cr.full # NULL

\* a role test that takes every creator
isAnyRole(cr) == TRUE

isAuthor(cr) == cr.creatorType = "author"

itemCreators(d) == SelectSeq([i \in 1..Len(d.creators) |-> mapCreator(d.creators[i])], hasName)

\* author last names: lines 232-235
itemAuthors(creators) ==
  LET as == SelectSeq(creators, isAuthor)
  IN  filterBoolean([i \in 1..Len(as) |->
        trim(IF as[i].lastName # NULL THEN as[i].lastName ELSE as[i].full)])

\* a placeholder test that compares the title as written
isPlaceholderExact(d) ==
  LET titleRaw == trim(d.title)
  IN  titleRaw = NULL \/ titleRaw \in {"PDF", "UNTITLED"}

\* the placeholder test: lines 206-211
isPlaceholder(d) ==
  LET titleRaw == trim(d.title)
  IN  titleRaw = NULL \/ toUpperCase(titleRaw) \in {"PDF", "UNTITLED"}

\* the separator of searchText, an em dash between spaces, written in ASCII
SearchSep == " -- "

\* the callback of items.map for an item that is kept: lines 213-314
mapItem(d, cKey, label, idx) ==
  LET titleRaw == trim(d.title)
      creators == itemCreators(d)
      authors == itemAuthors(creators)
      year == itemYear(d.date)
      venue == IF d.publicationTitle # NULL THEN d.publicationTitle
               ELSE IF d.bookTitle # NULL THEN d.bookTitle
               ELSE d.conferenceName
      tags == filterBoolean(d.tags)
      notesCitekey == resolveCitekey(d, titleRaw, year, idx)
      hasNotes == notesCitekey # NULL
      notesUrl == IF hasNotes
                    THEN IF MapHas(idx.urlByKey, notesCitekey)
                              /\ idx.urlByKey[notesCitekey] # NULL
                           THEN idx.urlByKey[notesCitekey]
                           ELSE noteUrlForCitekey(notesCitekey)
                    ELSE NULL
      searchText ==
        join(filterBoolean(<<titleRaw,
                             join([i \in 1..Len(creators) |-> creators[i].full], ", "),
                             venue, year, d.itemType, join(tags, ", "), d.language>>),
             SearchSep)
  IN  [id |-> IF d.key # NULL THEN d.key
              ELSE titleRaw \o "-" \o year \o "-" \o cKey,
       key |-> d.key, title |-> titleRaw, creators |-> creators, authors |-> authors,
       year |-> year, venue |-> venue, itemType |-> d.itemType, tags |-> tags,
       language |-> d.language, doi |-> d.DOI, url |-> d.url,
       collectionKey |-> cKey, collectionLabel |-> label, searchText |-> searchText,
       hasNotes |-> hasNotes, notesCitekey |-> notesCitekey, notesUrl |-> notesUrl]

\* items.map(...).filter(Boolean): lines 203-316
RECURSIVE cleanItems(_, _, _, _)
cleanItems(its, cKey, label, idx) ==
  IF its = <<>> THEN <<>>
  ELSE IF isPlaceholder(Head(its))
    THEN cleanItems(Tail(its), cKey, label, idx)
    ELSE <<mapItem(Head(its), cKey, label, idx)>>
           \o cleanItems(Tail(its), cKey, label, idx)

(***************************************************************************)
(* The notes index and one item: the inputs and the two steps              *)
(***************************************************************************)
Row(letter, slug, link, doi, title, year) ==
  [isRecord |-> TRUE, letter |-> letter, slug |-> slug, link |-> link,
   doi |-> doi, title |-> title, year |-> year]

\* rows of an index document: two rows with the same DOI and the same
\* title and year under different citekeys, a row whose citekey comes from
\* its link and whose date has no year, a row whose citekey is an item key,
\* a row without citekey and link, a row whose link ends in .htm, and a
\* row that is null
RowPool ==
  { Row(NULL, "smith2020", NULL, "10.1/ABC", "Deep {Learning}", "2020"),
    Row(NULL, "jones2019", "J/jones2019.html", "https://doi.org/10.1/abc",
        "Deep Learning", "May 2020"),
    Row("K", NULL, "/notes/kim2021.MD", NULL, "Graphs", "n.d."),
    Row(NULL, "I1", NULL, NULL, "Deep Learning", "2020-05-01"),
    Row(NULL, NULL, NULL, "10.1/abc", "Deep Learning", "2020"),
    Row(NULL, NULL, "L/lee2022.htm", NULL, "Trees", "2022"),
    NullRow }

RowLists == SeqsUpTo(RowPool, MaxRows)

Creator(creatorType, firstName, lastName, name) ==
  [creatorType |-> creatorType, firstName |-> firstName, lastName |-> lastName,
   name |-> name]

\* it.data of an item of the store
ItemWith(key, title, date, doi, creators, venue) ==
  [key |-> key, title |-> title, date |-> date, DOI |-> doi, creators |-> creators,
   publicationTitle |-> NULL, bookTitle |-> venue, conferenceName |-> "Conf",
   itemType |-> "book", tags |-> <<"ml">>, language |-> "en", url |-> NULL]

Item(key, title, date, doi) ==
  ItemWith(key, title, date, doi,
           <<Creator("author", "Ann", "Smith", NULL), Creator("editor", NULL, NULL, "Ed Board")>>,
           "Handbook")

ItemPool ==
  { Item(k, t, d, doi) :
      k \in {"I1", "I2"},
      t \in {"Deep Learning", " Deep {Learning}", "pdf"},
      d \in {"2020-05-01", "May 2020", NULL},
      doi \in {NULL, "doi:10.1/ABC"} }

ReconInit ==
  /\ doc \in {ArrayDoc(rs) : rs \in RowLists}
  /\ rows = <<>>
  /\ items \in {<<d>> : d \in ItemPool}
  /\ fetched = FALSE
  /\ notesThrew = FALSE
  /\ notesIndex = EmptyIndex
  /\ clean = <<>>
  /\ reconPc = "index"

\* titles of fetched items: a real title, a missing one, white space,
\* the placeholders in several cases, and a title that starts like one
TitlePool == <<"Deep Learning", NULL, "  ", "pdf", " Untitled ", "PDFs", "UNTITLED">>

\* the items of one collection, each with its own key
TitledItems == {Item("T" \o ToString(i), TitlePool[i], "2020", NULL) : i \in 1..Len(TitlePool)}

\* a fetched item list of a collection and the index of the store
ItemsInit ==
  /\ doc = ArrayDoc(<<Row(NULL, "smith2020", NULL, "10.1/ABC", "Deep {Learning}", "2020")>>)
  /\ rows = <<>>
  /\ items \in SeqsUpTo(TitledItems, MaxEntries)
  /\ fetched = FALSE
  /\ notesThrew = FALSE
  /\ notesIndex = EmptyIndex
  /\ clean = <<>>
  /\ reconPc = "index"

\* keys of an index object: the two the loader knows, single letters, a word
FieldKeys == {"entries", "items", "A", "b", "notes"}

\* values of an index object: arrays of rows, the empty array, and a
\* value that is no array
FieldValues ==
  { ArrayValue(<<Row("A", "adams2001", NULL, NULL, "Atlas", "2001")>>),
    ArrayValue(<<Row("B", "brown2002", NULL, NULL, "Birds", "2002")>>),
    ArrayValue(<<>>),
    OtherValue }

\* the fields of an object: its keys are unique
FieldLists ==
  {fs \in SeqsUpTo(FieldKeys \X FieldValues, MaxFields) :
     \A i, j \in 1..Len(fs) : fs[i][1] = fs[j][1] => i = j}

\* the documents the index URL can serve
DocPool ==
  {NullDoc, ScalarDoc}
    \cup {ArrayDoc(rs) : rs \in SeqsUpTo({fv.rows[1] : fv \in {v \in FieldValues : v.rows # <<>>}}, 2)}
    \cup {ObjectDoc(fs) : fs \in FieldLists}

\* an index document of any shape and one item
DocsInit ==
  /\ doc \in DocPool
  /\ rows = <<>>
  /\ items = <<Item("adams2001", "Atlas", "2001", NULL)>>
  /\ fetched = FALSE
  /\ notesThrew = FALSE
  /\ notesIndex = EmptyIndex
  /\ clean = <<>>
  /\ reconPc = "index"

\* DOIs as documents spell them: the spellings of one bare DOI, in several
\* cases and with white space around and inside it, and norm, the
\* lower-case spelling with single spaces
DoiCores ==
  { [spellings |-> {"10.1/ABC", "10.1/abc", " 10.1/Abc  "}, norm |-> "10.1/abc"],
    [spellings |-> {"10.2/x  y", "10.2/X y"}, norm |-> "10.2/x y"] }

\* what comes before the bare DOI
DoiPrefixes == {"", "https://doi.org/", "http://dx.doi.org/", "doi:", "DOI:", " HTTPS://DOI.ORG/"}

\* the spellings of a DOI with and without a prefix
DoiForms(c) == {p \o d : p \in DoiPrefixes, d \in c.spellings}

\* an index with one row and one item, each with a DOI
DoisInit ==
  /\ doc \in {ArrayDoc(<<Row(NULL, "smith2020", NULL, d, "Other", "1999")>>) :
                d \in UNION {DoiForms(c) : c \in DoiCores}}
  /\ rows = <<>>
  /\ items \in {<<Item("I1", "Deep Learning", "2020", d)>> :
                  d \in UNION {DoiForms(c) : c \in DoiCores}}
  /\ fetched = FALSE
  /\ notesThrew = FALSE
  /\ notesIndex = EmptyIndex
  /\ clean = <<>>
  /\ reconPc = "index"

\* creators of an item: authors with two names, with a single name and
\* with a first name only, an editor, a translator, and a creator without
\* any name
CreatorPool ==
  { Creator("author", "Ann", "Smith", NULL),
    Creator("author", NULL, NULL, "Plato"),
    Creator("author", "Madonna", NULL, NULL),
    Creator("editor", NULL, NULL, "Ed Board"),
    Creator("translator", "Tom", "Lee", NULL),
    Creator("author", NULL, NULL, NULL) }

\* one item with a list of creators
CreatorsInit ==
  /\ doc = ArrayDoc(<<>>)
  /\ rows = <<>>
  /\ items \in {<<ItemWith("I1", "Deep Learning", "2020", NULL, crs, "Handbook")>> :
                  crs \in SeqsUpTo(CreatorPool, MaxCreators)}
  /\ fetched = FALSE
  /\ notesThrew = FALSE
  /\ notesIndex = EmptyIndex
  /\ clean = <<>>
  /\ reconPc = "index"

\* neither the loader nor the item mapping is running
ReconIdle ==
  /\ doc = NullDoc
  /\ rows = <<>>
  /\ items = <<Item(NULL, NULL, NULL, NULL)>>
  /\ fetched = FALSE
  /\ notesThrew = FALSE
  /\ notesIndex = EmptyIndex
  /\ clean = <<>>
  /\ reconPc = "done"

\* fetchNotesIndex().catch(...) settles: lines 160-178 of App, 67-134 of notes.js
LoadIndex ==
  /\ reconPc = "index"
  /\ \E ok \in BOOLEAN :
       LET res == fetchNotesIndex(ok, doc)
       IN  /\ fetched' = ok
           /\ rows' = IF ok THEN flattenIndexJson(doc) ELSE <<>>
           /\ notesThrew' = res.rejected
           /\ notesIndex' = notesOrEmpty(res).value
  /\ reconPc' = "map"
  /\ UNCHANGED <<doc, items, clean>>
  /\ UNCHANGED <<pathVars, appVars, homeVars>>

\* the items of one collection are mapped: lines 203-316
MapItems ==
  /\ reconPc = "map"
  /\ clean' = cleanItems(items, "K1", "N1", notesIndex)
  /\ reconPc' = "done"
  /\ UNCHANGED <<doc, rows, items, fetched, notesThrew, notesIndex>>
  /\ UNCHANGED <<pathVars, appVars, homeVars>>

ReconNext == LoadIndex \/ MapItems

(***************************************************************************)
(* App.jsx: the load cycle                                                 *)
(***************************************************************************)
\* the effect runs of one mount of App: the run after the first commit and
\* the second run React.StrictMode makes after tearing the first one down
Loads == {1, 2}

\* a filter that keeps the root collections too
hasAnyParent(c) == TRUE

hasParent(c) == c.parentCollection # NULL

\* collsData.filter((c) => c.parentCollection): line 181
childrenOf(cs) == SelectSeq(cs, hasParent)

DigitVal(c) == CHOOSE v \in 0..9 : Ch(DigitChars, v + 1) = c

RECURSIVE digitsValue(_, _)
digitsValue(s, acc) ==
  IF Len(s) > 0 /\ IsDigit(Ch(s, 1))
    THEN digitsValue(SubSeq(s, 2, Len(s)), 10 * acc + DigitVal(Ch(s, 1)))
    ELSE acc

\* a parseInt that finds no number in any label
sortNumberNone(label) == [inf |-> TRUE, n |-> 0]

\* parseInt(label, 10), with isNaN(n) ? Infinity : n applied: lines 189-192
sortNumber(label) ==
  LET t == trimStart(label)
      neg == Len(t) > 0 /\ Ch(t, 1) = "-"
      u == IF Len(t) > 0 /\ Ch(t, 1) \in {"-", "+"} THEN SubSeq(t, 2, Len(t)) ELSE t
  IN  IF Len(u) > 0 /\ IsDigit(Ch(u, 1))
        THEN [inf |-> FALSE, n |-> IF neg THEN 0 - digitsValue(u, 0) ELSE digitsValue(u, 0)]
        ELSE [inf |-> TRUE, n |-> 0]

\* the comparator is negative: Infinity - Infinity is NaN, which sorts as 0
labelBefore(a, b) ==
  LET x == sortNumber(a.label)
      y == sortNumber(b.label)
  IN  IF x.inf THEN FALSE ELSE IF y.inf THEN TRUE ELSE x.n < y.n

\* collectionsList: lines 186-194
collectionsList(ch, bp) ==
  LET list == [i \in 1..Len(ch) |-> [key |-> ch[i].key, label |-> ObjGet(bp, ch[i].key)]]
  IN  sortedStable(list, [i, j \in 1..Len(list) |-> labelBefore(list[i], list[j])])

\* the lists fetchCollections can return
StoreCollLists == {cs \in CollLists : Len(cs) <= MaxStoreColls}

\* what fetchItems returns for a collection when it succeeds: an item the
\* index has notes for and a placeholder in the first collection, an item
\* without notes in the second
StoreItems(k) ==
  IF k = CollKey(1)
    THEN <<Item("I1", "Deep Learning", "2020-05-01", "doi:10.1/ABC"),
           Item("I9", "PDF", NULL, NULL)>>
  ELSE IF k = CollKey(2) THEN <<Item("I2", "Graphs", "May 2020", NULL)>>
  ELSE <<>>

\* the rows of the annotation index document
StoreRows == <<Row(NULL, "smith2020", NULL, "10.1/ABC", "Deep {Learning}", "2020")>>

PendingNotes == [state |-> "pending", rejected |-> FALSE, value |-> EmptyIndex]

AppInit ==
  /\ storeColls \in StoreCollLists
  /\ mounted = TRUE
  /\ torn = {}
  /\ collections = <<>>
  /\ allEntries = <<>>
  /\ counts = <<>>
  /\ paths = <<>>
  /\ loading = TRUE
  /\ loadPc = [l \in Loads |-> "idle"]
  /\ lColls = [l \in Loads |-> "pending"]
  /\ lNotes = [l \in Loads |-> PendingNotes]
  /\ lNotesFailed = [l \in Loads |-> FALSE]
  /\ lItemsFailed = [l \in Loads |-> FALSE]
  /\ lPaths = [l \in Loads |-> <<>>]
  /\ lList = [l \in Loads |-> <<>>]
  /\ lI = [l \in Loads |-> 0]
  /\ lEntryMap = [l \in Loads |-> <<>>]
  /\ lCountMap = [l \in Loads |-> <<>>]

\* App is not part of the run
AppIdle ==
  /\ storeColls = <<>>
  /\ mounted = FALSE
  /\ torn = {}
  /\ collections = <<>>
  /\ allEntries = <<>>
  /\ counts = <<>>
  /\ paths = <<>>
  /\ loading = TRUE
  /\ loadPc = [l \in Loads |-> "idle"]
  /\ lColls = [l \in Loads |-> "pending"]
  /\ lNotes = [l \in Loads |-> PendingNotes]
  /\ lNotesFailed = [l \in Loads |-> FALSE]
  /\ lItemsFailed = [l \in Loads |-> FALSE]
  /\ lPaths = [l \in Loads |-> <<>>]
  /\ lList = [l \in Loads |-> <<>>]
  /\ lI = [l \in Loads |-> 0]
  /\ lEntryMap = [l \in Loads |-> <<>>]
  /\ lCountMap = [l \in Loads |-> <<>>]

\* a state setter of App called with v: React drops the update of a
\* component that is no longer mounted
SetState(cur, v) == IF mounted THEN v ELSE cur

\* a walk of buildCollectionPaths that never ends blocks the only thread
Hung == \E l \in Loads : loadPc[l] = "hung"

\* the effect runs after the first commit; loadData runs up to its first
\* await: lines 154-171, 330
EffectRun ==
  /\ ~Hung
  /\ mounted
  /\ loadPc[1] = "idle"
  /\ loadPc' = [loadPc EXCEPT ![1] = "fetching"]
  /\ loading' = SetState(loading, TRUE)
  /\ UNCHANGED <<storeColls, mounted, torn, collections, allEntries, counts, paths>>
  /\ UNCHANGED <<lColls, lNotes, lNotesFailed, lItemsFailed, lPaths, lList, lI, lEntryMap, lCountMap>>
  /\ UNCHANGED <<pathVars, reconVars, homeVars>>

\* React.StrictMode tears the effect down right after its first run (the
\* effect returns no cleanup) and runs it again: part_001 lines 175-179
StrictRerun ==
  /\ ~Hung
  /\ mounted
  /\ loadPc[1] = "fetching" /\ lColls[1] = "pending" /\ lNotes[1].state = "pending"
  /\ loadPc[2] = "idle"
  /\ torn = {}
  /\ torn' = {1}
  /\ loadPc' = [loadPc EXCEPT ![2] = "fetching"]
  /\ loading' = SetState(loading, TRUE)
  /\ UNCHANGED <<storeColls, mounted, collections, allEntries, counts, paths>>
  /\ UNCHANGED <<lColls, lNotes, lNotesFailed, lItemsFailed, lPaths, lList, lI, lEntryMap, lCountMap>>
  /\ UNCHANGED <<pathVars, reconVars, homeVars>>

\* App unmounts: every effect run is torn down
Unmount ==
  /\ ~Hung
  /\ mounted
  /\ loadPc[1] # "idle"
  /\ mounted' = FALSE
  /\ torn' = {l \in Loads : loadPc[l] # "idle"}
  /\ UNCHANGED <<storeColls, appState, loadVars>>
  /\ UNCHANGED <<pathVars, reconVars, homeVars>>

\* fetchCollections() settles; when it rejects Promise.all rejects and
\* loadData goes through catch and finally: lines 160-161, 324-328
CollsSettle(l) ==
  /\ ~Hung
  /\ loadPc[l] = "fetching"
  /\ lColls[l] = "pending"
  /\ \E ok \in BOOLEAN :
       IF ok
         THEN /\ lColls' = [lColls EXCEPT ![l] = "ok"]
              /\ UNCHANGED <<loadPc, loading>>
         ELSE /\ lColls' = [lColls EXCEPT ![l] = "failed"]
              /\ loadPc' = [loadPc EXCEPT ![l] = "caught"]
              /\ loading' = SetState(loading, FALSE)
  /\ UNCHANGED <<storeColls, mounted, torn, collections, allEntries, counts, paths>>
  /\ UNCHANGED <<lNotes, lNotesFailed, lItemsFailed, lPaths, lList, lI, lEntryMap, lCountMap>>
  /\ UNCHANGED <<pathVars, reconVars, homeVars>>

\* fetchNotesIndex().catch(...) settles: lines 162-170
NotesSettle(l) ==
  /\ ~Hung
  /\ loadPc[l] = "fetching"
  /\ lNotes[l].state = "pending"
  /\ \E ok \in BOOLEAN :
       LET res == fetchNotesIndex(ok, ArrayDoc(StoreRows))
           out == notesOrEmpty(res)
       IN  /\ lNotesFailed' = [lNotesFailed EXCEPT ![l] = res.rejected]
           /\ lNotes' = [lNotes EXCEPT ![l] =
                           [state |-> "settled", rejected |-> out.rejected, value |-> out.value]]
           /\ IF out.rejected
                THEN /\ loadPc' = [loadPc EXCEPT ![l] = "caught"]
                     /\ loading' = SetState(loading, FALSE)
                ELSE UNCHANGED <<loadPc, loading>>
  /\ UNCHANGED <<storeColls, mounted, torn, collections, allEntries, counts, paths>>
  /\ UNCHANGED <<lColls, lItemsFailed, lPaths, lList, lI, lEntryMap, lCountMap>>
  /\ UNCHANGED <<pathVars, reconVars, homeVars>>

\* loadData goes on after Promise.all, up to the first await fetchItems, or
\* to its end when no collection has a parent: lines 173-201, 322-328;
\* builtPaths, children and collectionsList are consts, bound once
AfterPromiseAll(l) ==
  /\ ~Hung
  /\ loadPc[l] = "fetching"
  /\ lColls[l] = "ok"
  /\ lNotes[l].state = "settled"
  /\ IF \E i \in 1..Len(storeColls) : pathHangs(storeColls, storeColls[i])
       THEN /\ loadPc' = [loadPc EXCEPT ![l] = "hung"]
            /\ UNCHANGED <<appState, lPaths, lList, lI>>
       ELSE \E bp \in {buildCollectionPaths(storeColls)} :
            \E ch \in {childrenOf(storeColls)} :
            \E list \in {collectionsList(ch, bp)} :
                /\ lPaths' = [lPaths EXCEPT ![l] = bp]
                /\ lList' = [lList EXCEPT ![l] = list]
                /\ paths' = SetState(paths, bp)
                /\ collections' = SetState(collections, list)
                /\ IF ch = <<>>
                     THEN /\ allEntries' = SetState(allEntries, <<>>)
                          /\ counts' = SetState(counts, <<>>)
                          /\ loading' = SetState(loading, FALSE)
                          /\ loadPc' = [loadPc EXCEPT ![l] = "done"]
                          /\ UNCHANGED lI
                     ELSE /\ lI' = [lI EXCEPT ![l] = 1]
                          /\ loadPc' = [loadPc EXCEPT ![l] = "items"]
                          /\ UNCHANGED <<allEntries, counts, loading>>
  /\ UNCHANGED <<storeColls, mounted, torn>>
  /\ UNCHANGED <<lColls, lNotes, lNotesFailed, lItemsFailed, lEntryMap, lCountMap>>
  /\ UNCHANGED <<pathVars, reconVars, homeVars>>

\* a loop that publishes the maps after each collection it has fetched
ItemsSettleEager(l) ==
  /\ ~Hung
  /\ loadPc[l] = "items"
  /\ \E ok \in BOOLEAN :
       LET ch == childrenOf(storeColls)
           c == ch[lI[l]]
           cl == cleanItems(StoreItems(c.key), c.key, ObjGet(lPaths[l], c.key), lNotes[l].value)
           entryMap == ObjSet(lEntryMap[l], c.key, cl)
           countMap == ObjSet(lCountMap[l], c.key, Len(cl))
       IN  IF ~ok
             THEN /\ lItemsFailed' = [lItemsFailed EXCEPT ![l] = TRUE]
                  /\ loadPc' = [loadPc EXCEPT ![l] = "caught"]
                  /\ loading' = SetState(loading, FALSE)
                  /\ UNCHANGED <<allEntries, counts, lI, lEntryMap, lCountMap>>
             ELSE /\ lEntryMap' = [lEntryMap EXCEPT ![l] = entryMap]
                  /\ lCountMap' = [lCountMap EXCEPT ![l] = countMap]
                  /\ allEntries' = SetState(allEntries, entryMap)
                  /\ counts' = SetState(counts, countMap)
                  /\ UNCHANGED lItemsFailed
                  /\ IF lI[l] = Len(ch)
                       THEN /\ loading' = SetState(loading, FALSE)
                            /\ loadPc' = [loadPc EXCEPT ![l] = "done"]
                            /\ UNCHANGED lI
                       ELSE /\ lI' = [lI EXCEPT ![l] = lI[l] + 1]
                            /\ UNCHANGED <<loading, loadPc>>
  /\ UNCHANGED <<storeColls, mounted, torn, collections, paths>>
  /\ UNCHANGED <<lColls, lNotes, lNotesFailed, lPaths, lList>>
  /\ UNCHANGED <<pathVars, reconVars, homeVars>>

\* a count that is added to the count published for the collection
countOnTop(k, cl) == Len(cl) + (IF ObjHas(counts, k) THEN ObjGet(counts, k) ELSE 0)

\* countMap[c.key] = clean.length: line 319
countOf(k, cl) == Len(cl)

\* fetchItems(c.key) settles: the items are mapped and the loop goes to the
\* next collection, or ends and the maps are published; a rejection goes
\* through catch and finally: lines 200-328
ItemsSettle(l) ==
  /\ ~Hung
  /\ loadPc[l] = "items"
  /\ \E ok \in BOOLEAN :
       LET ch == childrenOf(storeColls)
           c == ch[lI[l]]
           cl == cleanItems(StoreItems(c.key), c.key, ObjGet(lPaths[l], c.key), lNotes[l].value)
           entryMap == ObjSet(lEntryMap[l], c.key, cl)
           countMap == ObjSet(lCountMap[l], c.key, countOf(c.key, cl))
       IN  IF ~ok
             THEN /\ lItemsFailed' = [lItemsFailed EXCEPT ![l] = TRUE]
                  /\ loadPc' = [loadPc EXCEPT ![l] = "caught"]
                  /\ loading' = SetState(loading, FALSE)
                  /\ UNCHANGED <<allEntries, counts, lI, lEntryMap, lCountMap>>
             ELSE /\ lEntryMap' = [lEntryMap EXCEPT ![l] = entryMap]
                  /\ lCountMap' = [lCountMap EXCEPT ![l] = countMap]
                  /\ UNCHANGED lItemsFailed
                  /\ IF lI[l] = Len(ch)
                       THEN /\ allEntries' = SetState(allEntries, entryMap)
                            /\ counts' = SetState(counts, countMap)
                            /\ loading' = SetState(loading, FALSE)
                            /\ loadPc' = [loadPc EXCEPT ![l] = "done"]
                            /\ UNCHANGED lI
                       ELSE /\ lI' = [lI EXCEPT ![l] = lI[l] + 1]
                            /\ UNCHANGED <<allEntries, counts, loading, loadPc>>
  /\ UNCHANGED <<storeColls, mounted, torn, collections, paths>>
  /\ UNCHANGED <<lColls, lNotes, lNotesFailed, lPaths, lList>>
  /\ UNCHANGED <<pathVars, reconVars, homeVars>>

\* the collection lists of a store whose collections are roots, children
\* of the first collection, or children of a collection the store does not
\* return
FlatCollLists ==
  {cs \in CollLists :
     \A i \in 1..Len(cs) : cs[i].parentCollection \in {NULL, UnknownKey, CollKey(1)}}

\* App after construction, in a production build
ProdInit ==
  /\ storeColls \in FlatCollLists
  /\ mounted = TRUE
  /\ torn = {}
  /\ collections = <<>>
  /\ allEntries = <<>>
  /\ counts = <<>>
  /\ paths = <<>>
  /\ loading = TRUE
  /\ loadPc = [l \in Loads |-> "idle"]
  /\ lColls = [l \in Loads |-> "pending"]
  /\ lNotes = [l \in Loads |-> PendingNotes]
  /\ lNotesFailed = [l \in Loads |-> FALSE]
  /\ lItemsFailed = [l \in Loads |-> FALSE]
  /\ lPaths = [l \in Loads |-> <<>>]
  /\ lList = [l \in Loads |-> <<>>]
  /\ lI = [l \in Loads |-> 0]
  /\ lEntryMap = [l \in Loads |-> <<>>]
  /\ lCountMap = [l \in Loads |-> <<>>]

\* a production build: React.StrictMode does not run the effect twice, the
\* only effect run is the first one
ProdNext ==
  \/ EffectRun
  \/ Unmount
  \/ CollsSettle(1)
  \/ NotesSettle(1)
  \/ AfterPromiseAll(1)
  \/ ItemsSettle(1)

AppNext ==
  \/ EffectRun
  \/ StrictRerun
  \/ Unmount
  \/ \E l \in Loads : CollsSettle(l)
  \/ \E l \in Loads : NotesSettle(l)
  \/ \E l \in Loads : AfterPromiseAll(l)
  \/ \E l \in Loads : ItemsSettle(l)

(***************************************************************************)
(* Home.jsx: search                                                        *)
(***************************************************************************)
\* the contribution of one author: lines 25-28
\* an author test that scores every kind of match alike
authorScoreFlat(a, needle) == IF includes(toLowerCase(a), needle) THEN 60 ELSE 0

\* the if / else-if chain on one author: lines 25-28
authorScore(a, needle) ==
  LET al == toLowerCase(a)
  IN  IF al = needle THEN 100
      ELSE IF startsWith(al, needle) THEN 70
      ELSE IF includes(al, needle) THEN 60
      ELSE 0

\* an authors loop that keeps the best author only
RECURSIVE authorsScoreBest(_, _)
authorsScoreBest(authors, needle) ==
  IF authors = <<>> THEN 0
  ELSE LET h == authorScore(Head(authors), needle)
           t == authorsScoreBest(Tail(authors), needle)
       IN  IF h > t THEN h ELSE t

\* the loop over e.authors: lines 24-29
RECURSIVE authorsScore(_, _)
authorsScore(authors, needle) ==
  IF authors = <<>> THEN 0
  ELSE authorScore(Head(authors), needle) + authorsScore(Tail(authors), needle)

\* scoreEntry: lines 19-42
scoreEntry(e, q) ==
  IF q = NULL THEN 0
  ELSE LET needle == toLowerCase(q)
       IN  authorsScore(e.authors, needle)
             + (IF includes(toLowerCase(e.title), needle) THEN 30 ELSE 0)
             + (IF includes(toLowerCase(e.venue), needle) THEN 10 ELSE 0)
             + (IF toLowerCase(e.year) = needle THEN 5 ELSE 0)
             + (IF includes(toLowerCase(e.searchText), needle) THEN 8 ELSE 0)

\* flat: the entries of allEntries in the order of its keys: lines 72-79
RECURSIVE flatOf(_)
flatOf(o) == IF o = <<>> THEN <<>> ELSE Head(o)[2] \o flatOf(Tail(o))

\* a base that takes the entries of every collection
baseOfAll(o, active) == flatOf(o)

\* base: lines 85-87
baseOf(o, active) ==
  LET inActive(e) == e.collectionKey = active
  IN  IF active # NULL THEN SelectSeq(flatOf(o), inActive) ELSE flatOf(o)

\* a comparator that sorts by ascending score
scoreBeforeAscending(a, b) == a.s - b.s < 0

\* the comparator (a, b) => b.s - a.s is negative: line 92
scoreBefore(a, b) == b.s - a.s < 0

positive(x) == x.s > 0

\* the scored candidates that are kept: lines 90-91
keptOf(base, q) ==
  SelectSeq([i \in 1..Len(base) |-> [e |-> base[i], s |-> scoreEntry(base[i], q)]], positive)

\* results computed on the query as typed
resultsOfUntrimmed(o, qry, active) ==
  LET kept == keptOf(baseOf(o, active), qry)
      sorted == sortedStable(kept, [i, j \in 1..Len(kept) |-> scoreBefore(kept[i], kept[j])])
  IN  IF qry = NULL THEN <<>> ELSE [i \in 1..Len(sorted) |-> sorted[i].e]

\* results: lines 82-94
resultsOf(o, qry, active) ==
  LET q == trim(qry)
      kept == keptOf(baseOf(o, active), q)
      sorted == sortedStable(kept, [i, j \in 1..Len(kept) |-> scoreBefore(kept[i], kept[j])])
  IN  IF q = NULL THEN <<>> ELSE [i \in 1..Len(sorted) |-> sorted[i].e]

\* legacyEntries: lines 97-100
legacyEntriesOf(o, qry, active) ==
  IF active = NULL \/ trim(qry) # NULL THEN <<>>
  ELSE IF ObjHas(o, active) THEN ObjGet(o, active) ELSE <<>>

\* {query.trim() && (...)}: line 115
searchMode(qry) == trim(qry) # NULL

\* {!query.trim() && (...)}: line 157
noSearchMode(qry) == ~(trim(qry) # NULL)

\* what Home returns: the search results, or the pill row and, under it,
\* the listing of the active collection: lines 102-180
renderOf(o, qry, active) ==
  [search |-> searchMode(qry),
   pills |-> noSearchMode(qry),
   listing |-> noSearchMode(qry) /\ active # NULL,
   legacyEntries |-> legacyEntriesOf(o, qry, active)]

\* a URL effect that writes the query as typed
syncedUrlUntrimmed(qry, active) == [collection |-> active, q |-> qry]

\* the parameters the URL effect leaves in the URL, an absent parameter
\* being NULL: lines 60-67
syncedUrl(qry, active) == [collection |-> active, q |-> trim(qry)]

Author(lastName) == Creator("author", NULL, lastName, NULL)

\* items of the library: authors that equal, start with and contain "smith"
HomeItemPool ==
  { ItemWith("H1", "Deep Learning", "2020", NULL, <<Author("Smith")>>, "Nature"),
    ItemWith("H2", "Graphs", "2019", NULL, <<Author("Smithson")>>, NULL),
    ItemWith("H3", "Iron", "2017", NULL, <<Author("Blacksmith")>>, NULL),
    ItemWith("H4", "Forging", "2018", NULL, <<Author("Blacksmith"), Author("Smith")>>, NULL),
    ItemWith("H5", "Deep Nets", "2020", NULL, <<Author("SMITH")>>, NULL) }

\* allEntries after a load: the first k items of a list mapped as the
\* entries of one collection, the others as those of a second one
HomeEntries(its, k) ==
  << <<CollKey(1), cleanItems(SubSeq(its, 1, k), CollKey(1), CollName(1), EmptyIndex)>>,
     <<CollKey(2), cleanItems(SubSeq(its, k + 1, Len(its)), CollKey(2), CollName(2), EmptyIndex)>> >>

\* the library holds an item once
HomeItemLists ==
  {its \in SeqsUpTo(HomeItemPool, MaxEntries) :
     \A i, j \in 1..Len(its) : its[i] = its[j] => i = j}

HomeEntrySets ==
  UNION { {HomeEntries(its, k) : k \in 0..Len(its)} : its \in HomeItemLists }

\* what the user types in the search box
Typed == {NULL, " ", "smith", "2020 ", "nature"}

HomeInit ==
  /\ hAllEntries \in HomeEntrySets
  /\ urlParams \in {[collection |-> NULL, q |-> NULL], [collection |-> CollKey(2), q |-> "Deep"]}
  /\ homePc = "mount"
  /\ query = NULL
  /\ activeCollection = NULL
  /\ results = <<>>
  /\ view = renderOf(hAllEntries, NULL, NULL)
  /\ url = urlParams
  /\ urlPending = FALSE

\* the libraries with at most one entry
SmallLibraries ==
  UNION { {HomeEntries(its, k) : k \in 0..Len(its)} : its \in {l \in HomeItemLists : Len(l) <= 1} }

\* the URLs Home is opened with: without parameters, with one of them, with
\* both, and with blanks around the text of q
DeepLinks ==
  {[collection |-> c, q |-> s] : c \in {NULL, CollKey(1), CollKey(2)}, s \in {NULL, "Deep", " smith "}}

\* Home opened by a link, on a small library
UrlInit ==
  /\ hAllEntries \in SmallLibraries
  /\ urlParams \in DeepLinks
  /\ homePc = "mount"
  /\ query = NULL
  /\ activeCollection = NULL
  /\ results = <<>>
  /\ view = renderOf(hAllEntries, NULL, NULL)
  /\ url = urlParams
  /\ urlPending = FALSE

\* Home is not part of the run
HomeIdle ==
  /\ hAllEntries = <<>>
  /\ urlParams = [collection |-> NULL, q |-> NULL]
  /\ homePc = "ready"
  /\ query = NULL
  /\ activeCollection = NULL
  /\ results = <<>>
  /\ view = renderOf(<<>>, NULL, NULL)
  /\ url = [collection |-> NULL, q |-> NULL]
  /\ urlPending = FALSE

\* the state the effect depends on changes in this step: line 69
depsChange == activeCollection' # activeCollection \/ query' # query

\* the effects of the first commit, and the render that follows: the
\* deep-link effect queues the state of the URL, the URL effect runs on the
\* state of the first render: lines 51-69
HomeMount ==
  /\ homePc = "mount"
  /\ homePc' = "ready"
  /\ activeCollection' = IF urlParams.collection # NULL THEN urlParams.collection
                         ELSE activeCollection
  /\ query' = IF urlParams.q # NULL THEN urlParams.q ELSE query
  /\ results' = resultsOf(hAllEntries, query', activeCollection')
  /\ view' = renderOf(hAllEntries, query', activeCollection')
  /\ url' = syncedUrl(query, activeCollection)
  /\ urlPending' = depsChange
  /\ UNCHANGED <<hAllEntries, urlParams>>
  /\ UNCHANGED <<pathVars, reconVars, appVars>>

\* the URL effect of a render that changed activeCollection or query:
\* lines 59-69
SyncUrl ==
  /\ homePc = "ready"
  /\ urlPending
  /\ url' = syncedUrl(query, activeCollection)
  /\ urlPending' = FALSE
  /\ UNCHANGED <<hAllEntries, urlParams, homePc, query, activeCollection, results, view>>
  /\ UNCHANGED <<pathVars, reconVars, appVars>>

\* the setQuery handler of the search box, and the render; React runs the
\* effects of a render before it handles the next event: lines 106-112
TypeQuery ==
  /\ homePc = "ready"
  /\ ~urlPending
  /\ \E v \in Typed :
       /\ query' = v
       /\ activeCollection' = IF v # NULL THEN NULL ELSE activeCollection
  /\ results' = resultsOf(hAllEntries, query', activeCollection')
  /\ view' = renderOf(hAllEntries, query', activeCollection')
  /\ urlPending' = depsChange
  /\ UNCHANGED <<hAllEntries, urlParams, homePc, url>>
  /\ UNCHANGED <<pathVars, reconVars, appVars>>

\* a click on a pill, shown while the trimmed query is empty: lines 157-163
ClickPill ==
  /\ homePc = "ready"
  /\ ~urlPending
  /\ view.pills
  /\ \E i \in 1..Len(hAllEntries) : activeCollection' = hAllEntries[i][1]
  /\ UNCHANGED <<hAllEntries, urlParams, homePc, query, url>>
  /\ results' = resultsOf(hAllEntries, query, activeCollection')
  /\ view' = renderOf(hAllEntries, query, activeCollection')
  /\ urlPending' = depsChange
  /\ UNCHANGED <<pathVars, reconVars, appVars>>

HomeNext == HomeMount \/ SyncUrl \/ TypeQuery \/ ClickPill

(***************************************************************************)
(* Specifications                                                          *)
(***************************************************************************)
\* one call of buildCollectionPaths on a collection list
InitPaths ==
  /\ PathsInit
  /\ ReconIdle
  /\ AppIdle
  /\ HomeIdle

SpecPaths == InitPaths /\ [][PathsNext]_vars

\* the notes index is loaded and one item is mapped against it
InitRecon ==
  /\ ReconInit
  /\ PathsIdle
  /\ AppIdle
  /\ HomeIdle

SpecRecon == InitRecon /\ [][ReconNext]_vars

\* the index is loaded and the items of one collection are mapped
InitItems ==
  /\ ItemsInit
  /\ PathsIdle
  /\ AppIdle
  /\ HomeIdle

SpecItems == InitItems /\ [][ReconNext]_vars

\* the index document is flattened and indexed
InitDocs ==
  /\ DocsInit
  /\ PathsIdle
  /\ AppIdle
  /\ HomeIdle

SpecDocs == InitDocs /\ [][ReconNext]_vars

\* a row and an item are matched by DOI
InitDois ==
  /\ DoisInit
  /\ PathsIdle
  /\ AppIdle
  /\ HomeIdle

SpecDois == InitDois /\ [][ReconNext]_vars

\* the creators of one item are mapped
InitCreators ==
  /\ CreatorsInit
  /\ PathsIdle
  /\ AppIdle
  /\ HomeIdle

SpecCreators == InitCreators /\ [][ReconNext]_vars

InitApp ==
  /\ AppInit
  /\ PathsIdle
  /\ ReconIdle
  /\ HomeIdle

\* the load cycles of one mount of App
SpecApp == InitApp /\ [][AppNext]_vars

\* one mount of App in a production build
InitProd ==
  /\ ProdInit
  /\ PathsIdle
  /\ ReconIdle
  /\ HomeIdle

SpecProd == InitProd /\ [][ProdNext]_vars

\* the same with the scheduling of the browser: the effect runs after the
\* commit, a fetch settles (the network answers or fails), and the code
\* after an await runs once its promise has settled
SpecProdFair ==
  /\ InitProd
  /\ [][ProdNext]_vars
  /\ WF_vars(EffectRun)
  /\ WF_vars(CollsSettle(1))
  /\ WF_vars(NotesSettle(1))
  /\ WF_vars(AfterPromiseAll(1))
  /\ WF_vars(ItemsSettle(1))

InitHome ==
  /\ HomeInit
  /\ PathsIdle
  /\ ReconIdle
  /\ AppIdle

\* the Home page over the entries of a finished load
SpecHome == InitHome /\ [][HomeNext]_vars

\* Home opened by a link
InitUrl ==
  /\ UrlInit
  /\ PathsIdle
  /\ ReconIdle
  /\ AppIdle

\* Home with its effects: React runs the effect a commit has scheduled
SpecUrlFair ==
  /\ InitUrl
  /\ [][HomeNext]_vars
  /\ WF_vars(SyncUrl)

(***************************************************************************)
(* Properties                                                              *)
(***************************************************************************)
\* C1: buildCollectionPaths terminates on every collection list: the walk
\* of path(c) up the parent links is bounded, it makes no more iterations
\* than there are collections (a longer walk has come back to a collection
\* it left, and from there repeats for ever).
C1_WalkBounded == pathSteps <= Len(collsData)

\* the permutations of a sequence
Perms(s) ==
  { [i \in 1..Len(s) |-> s[f[i]]] :
      f \in {g \in [1..Len(s) -> 1..Len(s)] : \A i, j \in 1..Len(s) : g[i] = g[j] => i = j} }

\* C2: tier priority. An item whose normalized DOI is a key of the DOI
\* index is linked to the citekey stored under that DOI, whatever tiers 2
\* and 3 would give.
C2_DoiTierWins ==
  (reconPc = "done" /\ clean # <<>> /\ MapHas(notesIndex.dois, normDoiApp(item.DOI)))
    => /\ clean[1].hasNotes
       /\ clean[1].notesCitekey = notesIndex.dois[normDoiApp(item.DOI)]

\* an item mapped with its DOI in the index, while its title+year key is
\* stored under another citekey and its own key is a citekey too
C2_Witness ==
  /\ reconPc = "done"
  /\ clean # <<>>
  /\ MapHas(notesIndex.dois, normDoiApp(item.DOI))
  /\ titleYearTier(clean[1].title, clean[1].year, notesIndex)
       \notin {NULL, notesIndex.dois[normDoiApp(item.DOI)]}
  /\ keyTier(item, notesIndex) \notin {NULL, notesIndex.dois[normDoiApp(item.DOI)]}

\* C3: the title+year key the item mapping looks an item up under equals
\* the key the loader records a row with the same title and date under.
C3_SameTitleYearKey ==
  (reconPc = "done" /\ clean # <<>>)
    => itemTitleYearKey(clean[1].title, clean[1].year)
         = rowTitleYearKey(item.title, item.date)

\* the fields of an entry that say how it is linked
Linkage(es) == [i \in 1..Len(es) |-> <<es[i].hasNotes, es[i].notesCitekey>>]

\* C4: the linkage of an item is the same for every order of the rows of
\* the index document.
C4_RowOrderIndependent ==
  reconPc = "done"
    => \A p \in Perms(rows) :
         Linkage(cleanItems(<<item>>, "K1", "N1", notesOrEmpty(fetchNotesIndex(fetched, ArrayDoc(p))).value))
           = Linkage(clean)

\* the rows that give a citekey
RECURSIVE keyedRows(_)
keyedRows(rs) ==
  IF rs = <<>> THEN <<>>
  ELSE IF Head(rs).isRecord /\ rowCitekey(Head(rs)) # NULL
    THEN <<Head(rs)>> \o keyedRows(Tail(rs))
    ELSE keyedRows(Tail(rs))

\* C7: per-row tolerance. A row that gives no citekey, a row that is not a
\* record included, is skipped alone: the index of a fetched document is
\* the index of its other rows.
C7_BadRowSkippedAlone ==
  (reconPc # "index" /\ fetched)
    => /\ ~notesThrew
       /\ notesIndex = indexRows(EmptyIndex, keyedRows(rows)).value

\* C9: the year of an entry is the first run of four digits of the item's
\* date, and empty when the date holds none.
C9_YearIsFirstFourDigits ==
  (reconPc = "done" /\ clean # <<>>) => clean[1].year = firstFourDigits(item.date)

\* the outputs of effect run l, as it builds them
OutputsOf(l) == <<lPaths[l], lList[l], lEntryMap[l], lCountMap[l]>>

\* C5: a load publishes its outputs atomically. paths, collections,
\* allEntries and counts are all at their values from before any load, or
\* are all the outputs of one load that has completed.
C5_AtomicPublish ==
  \/ <<paths, collections, allEntries, counts>> = <<<<>>, <<>>, <<>>, <<>>>>
  \/ \E l \in Loads :
       /\ loadPc[l] = "done"
       /\ <<paths, collections, allEntries, counts>> = OutputsOf(l)

\* C6: a load that was cancelled publishes nothing. A step of an effect
\* run that React has torn down changes none of paths, collections,
\* allEntries, counts and loading.
C6_TornLoadPublishesNothing ==
  [][(\E l \in torn : loadPc'[l] # loadPc[l]) => UNCHANGED appState]_vars

\* every entry of an object of entry lists
EntriesOf(o) == UNION {Range(o[i][2]) : i \in 1..Len(o)}

\* C8: a failure of the notes index does not abort the load. The index the
\* load uses is then empty, the load fails only if fetchCollections or a
\* fetchItems call fails, no entry it builds is linked to a note, and its
\* entries are what is published when it completes.
C8_NotesFailureSoftFails ==
  \A l \in Loads :
    lNotesFailed[l] =>
      /\ ~lNotes[l].rejected
      /\ lNotes[l].value = EmptyIndex
      /\ loadPc[l] = "caught" => (lColls[l] = "failed" \/ lItemsFailed[l])
      /\ \A e \in EntriesOf(lEntryMap[l]) :
           ~e.hasNotes /\ e.notesCitekey = NULL /\ e.notesUrl = NULL
      /\ (loadPc[l] = "done" /\ mounted /\ \A k \in Loads \ {l} : loadPc[k] # "done")
           => /\ allEntries = lEntryMap[l]
              /\ counts = lCountMap[l]
              /\ paths = lPaths[l]
              /\ collections = lList[l]

\* a load whose notes index failed has completed and published an entry
\* that the index, had it been fetched, links to a note
C8_Witness ==
  \E l \in Loads :
    /\ lNotesFailed[l]
    /\ loadPc[l] = "done"
    /\ mounted
    /\ allEntries = lEntryMap[l]
    /\ \E i \in 1..Len(allEntries) :
         /\ allEntries[i][2] # <<>>
         /\ \E e \in Range(cleanItems(StoreItems(allEntries[i][1]), allEntries[i][1], NULL,
                                      fetchNotesIndex(TRUE, ArrayDoc(StoreRows)).value)) :
              e.hasNotes

\* C10: for a non-empty query the results are exactly the candidates with
\* a score above 0, by non-increasing score, candidates of equal score in
\* the order they have in the candidate list.
C10_ResultsRankedStable ==
  (homePc = "ready" /\ trim(query) # NULL) =>
    LET q == trim(query)
        base == baseOf(hAllEntries, activeCollection)
        n == Len(results)
        m == Len(base)
    IN  \E f \in [1..n -> 1..m] :
          /\ \A i \in 1..n : results[i] = base[f[i]]
          /\ {f[i] : i \in 1..n} = {j \in 1..m : scoreEntry(base[j], q) > 0}
          /\ \A i, j \in 1..n :
               i < j => /\ f[i] # f[j]
                        /\ scoreEntry(results[i], q) >= scoreEntry(results[j], q)
                        /\ scoreEntry(results[i], q) = scoreEntry(results[j], q)
                             => f[i] < f[j]

\* results that hold two different entries of equal score, from a
\* candidate list that also holds a candidate of score 0
C10_Witness ==
  /\ homePc = "ready"
  /\ trim(query) # NULL
  /\ \E j, k \in 1..Len(results) :
       /\ j < k
       /\ scoreEntry(results[j], trim(query)) = scoreEntry(results[k], trim(query))
       /\ results[j] # results[k]
  /\ \E e \in Range(baseOf(hAllEntries, activeCollection)) : scoreEntry(e, trim(query)) = 0

\* ignoring case: a equals q, a starts with q, a contains q
EqualsIC(a, q) == toLowerCase(a) = toLowerCase(q)

StartsIC(a, q) ==
  Len(q) <= Len(a) /\ \A i \in 1..Len(q) : LowerCh(Ch(a, i)) = LowerCh(Ch(q, i))

ContainsIC(a, q) ==
  \E k \in 0..(Len(a) - Len(q)) : \A i \in 1..Len(q) : LowerCh(Ch(a, k + i)) = LowerCh(Ch(q, i))

\* the one contribution of an author
AuthorPoints(a, q) ==
  IF EqualsIC(a, q) THEN 100
  ELSE IF StartsIC(a, q) THEN 70
  ELSE IF ContainsIC(a, q) THEN 60
  ELSE 0

RECURSIVE SumAuthorPoints(_, _, _)
SumAuthorPoints(authors, n, q) ==
  IF n = 0 THEN 0 ELSE SumAuthorPoints(authors, n - 1, q) + AuthorPoints(authors[n], q)

\* C11: for a non-empty query the score of an entry is the sum over its
\* authors of one of 100 (equals), 70 (starts with), 60 (contains) or 0,
\* plus 30 when the title contains the query, 10 when the venue does, 5
\* when the year equals it and 8 when searchText contains it, all ignoring
\* case.
C11_ScoreFormula ==
  (homePc = "ready" /\ trim(query) # NULL) =>
    \A e \in Range(flatOf(hAllEntries)) :
      LET q == trim(query)
      IN  scoreEntry(e, q)
            = SumAuthorPoints(e.authors, Len(e.authors), q)
                + (IF ContainsIC(e.title, q) THEN 30 ELSE 0)
                + (IF ContainsIC(e.venue, q) THEN 10 ELSE 0)
                + (IF EqualsIC(e.year, q) THEN 5 ELSE 0)
                + (IF ContainsIC(e.searchText, q) THEN 8 ELSE 0)

\* a result with two authors that both match the query, one exactly and
\* one in a later position, scored 160 for them and 8 for searchText
C11_Witness ==
  /\ homePc = "ready"
  /\ trim(query) # NULL
  /\ \E i \in 1..Len(results) :
       /\ Len(results[i].authors) = 2
       /\ AuthorPoints(results[i].authors[1], trim(query)) = 60
       /\ AuthorPoints(results[i].authors[2], trim(query)) = 100
       /\ scoreEntry(results[i], trim(query)) = 168

\* an entry with a single author whose title, venue and year do not match q
SoleAuthorOnly(e, q) ==
  /\ Len(e.authors) = 1
  /\ ~ContainsIC(e.title, q)
  /\ ~ContainsIC(e.venue, q)
  /\ ~EqualsIC(e.year, q)

\* how the single author matches q: 3 equals, 2 starts with q and is
\* longer, 1 contains q in a later position only, 0 no match
MatchKind(e, q) ==
  LET a == e.authors[1]
  IN  IF EqualsIC(a, q) THEN 3
      ELSE IF StartsIC(a, q) THEN 2
      ELSE IF ContainsIC(a, q) THEN 1
      ELSE 0

\* C12: among entries with a single author whose title, venue and year do
\* not match the query, an entry whose author equals the query is ranked
\* before one whose author starts with it, which is ranked before one
\* whose author contains it in a later position; all of them are results.
C12_AuthorMatchRanking ==
  (homePc = "ready" /\ trim(query) # NULL) =>
    LET q == trim(query)
        base == baseOf(hAllEntries, activeCollection)
    IN  /\ \A e \in Range(base) :
             (SoleAuthorOnly(e, q) /\ MatchKind(e, q) > 0) => e \in Range(results)
        /\ \A i, j \in 1..Len(results) :
             ( /\ SoleAuthorOnly(results[i], q)
               /\ SoleAuthorOnly(results[j], q)
               /\ MatchKind(results[j], q) > 0
               /\ MatchKind(results[i], q) > MatchKind(results[j], q) ) => i < j

\* the results hold an exact, a prefix and a substring match in this
\* order, and the candidate list held the substring match before the
\* prefix match and that one before the exact match
C12_Witness ==
  /\ homePc = "ready"
  /\ trim(query) # NULL
  /\ LET q == trim(query)
         base == baseOf(hAllEntries, activeCollection)
     IN  /\ \E i, j, k \in 1..Len(results) :
              /\ i < j /\ j < k
              /\ \A n \in {i, j, k} : SoleAuthorOnly(results[n], q)
              /\ MatchKind(results[i], q) = 3
              /\ MatchKind(results[j], q) = 2
              /\ MatchKind(results[k], q) = 1
         /\ \E i, j, k \in 1..Len(base) :
              /\ i < j /\ j < k
              /\ \A n \in {i, j, k} : SoleAuthorOnly(base[n], q)
              /\ MatchKind(base[i], q) = 1
              /\ MatchKind(base[j], q) = 2
              /\ MatchKind(base[k], q) = 3

\* C13: when the query is empty or holds white space only, the results
\* are the empty list whatever the entries and the active collection are,
\* and scoreEntry gives 0 for the empty query.
C13_EmptyQueryNoResults ==
  (\A i \in 1..Len(query) : IsSpace(Ch(query, i))) =>
    /\ results = <<>>
    /\ \A e \in Range(flatOf(hAllEntries)) : scoreEntry(e, "") = 0

\* the query is a space, a collection with entries is active, and one of
\* its entries has a space in its title
C13_Witness ==
  /\ homePc = "ready"
  /\ query = " "
  /\ activeCollection # NULL
  /\ \E e \in Range(baseOf(hAllEntries, activeCollection)) : includes(e.title, " ")

\* an item the exclusion rule keeps: its trimmed title is not empty and is
\* not PDF or UNTITLED in any case
KeptByRule(d) ==
  /\ \E i \in 1..Len(d.title) : ~IsSpace(Ch(d.title, i))
  /\ ~EqualsIC(trim(d.title), "PDF")
  /\ ~EqualsIC(trim(d.title), "UNTITLED")

\* C14: exclusion rule. The entry list of a collection holds one entry
\* for exactly the fetched items whose trimmed title is non-empty and is
\* not PDF or UNTITLED in any case, in the order of the fetch; the other
\* items are dropped and the mapping completes.
C14_ExclusionRule ==
  reconPc = "done" =>
    LET kept == SelectSeq(items, KeptByRule)
    IN  /\ Len(clean) = Len(kept)
        /\ \A i \in 1..Len(kept) :
             /\ clean[i].key = kept[i].key
             /\ clean[i].title = trim(kept[i].title)

\* three items were mapped: a lower-case placeholder between two items
\* that are kept
C14_Witness ==
  /\ reconPc = "done"
  /\ Len(items) = 3
  /\ KeptByRule(items[1])
  /\ toLowerCase(trim(items[2].title)) \in {"pdf", "untitled"}
  /\ trim(items[2].title) \notin {"PDF", "UNTITLED"}
  /\ KeptByRule(items[3])
  /\ Len(clean) = 2

\* the mapped item is found by tier 1: its normalized DOI is in the DOI index
DoiHit ==
  /\ item.DOI # NULL
  /\ normDoiApp(item.DOI) # NULL
  /\ MapHas(notesIndex.dois, normDoiApp(item.DOI))

\* by tier 2: its title+year key is in the title+year index
TitleYearHit ==
  /\ itemTitleYearKey(clean[1].title, clean[1].year) # NULL
  /\ MapHas(notesIndex.titleYears, itemTitleYearKey(clean[1].title, clean[1].year))

\* by tier 3: its own key is in the citekey set
KeyHit == item.key # NULL /\ item.key \in notesIndex.keys

\* the citekey of the first tier that finds the item
FirstHit ==
  IF DoiHit THEN notesIndex.dois[normDoiApp(item.DOI)]
  ELSE IF TitleYearHit
    THEN notesIndex.titleYears[itemTitleYearKey(clean[1].title, clean[1].year)]
  ELSE IF KeyHit THEN item.key
  ELSE NULL

\* C15: hasNotes of an entry is true exactly when one of the three tiers
\* resolved a citekey; notesCitekey is then that citekey and notesUrl the
\* URL urlByKey stores for it, or the synthesized URL when it stores none;
\* when hasNotes is false notesCitekey and notesUrl are both null.
C15_HasNotesFields ==
  (reconPc = "done" /\ clean # <<>>) =>
    LET e == clean[1]
    IN  /\ e.hasNotes \in BOOLEAN
        /\ e.hasNotes <=> (DoiHit \/ TitleYearHit \/ KeyHit)
        /\ e.hasNotes =>
             /\ e.notesCitekey = FirstHit
             /\ e.notesCitekey # NULL
             /\ e.notesUrl = IF MapHas(notesIndex.urlByKey, e.notesCitekey)
                               THEN notesIndex.urlByKey[e.notesCitekey]
                               ELSE noteUrlForCitekey(e.notesCitekey)
        /\ ~e.hasNotes => (e.notesCitekey = NULL /\ e.notesUrl = NULL)

\* an entry linked to a citekey whose URL the index stores
C15_Witness ==
  /\ reconPc = "done"
  /\ clean # <<>>
  /\ clean[1].hasNotes
  /\ MapHas(notesIndex.urlByKey, clean[1].notesCitekey)
  /\ clean[1].notesUrl = notesIndex.urlByKey[clean[1].notesCitekey]
  /\ clean[1].notesUrl # NULL

\* C16: the tiers are tried in the order DOI, title+year, own key, a later
\* one whenever the earlier ones did not resolve: an item whose DOI is not
\* in the DOI index is linked by its title+year key when that is indexed,
\* an item that tiers 1 and 2 miss is linked to its own key when that is a
\* citekey, and the first tier that succeeds decides.
C16_TiersInOrder ==
  (reconPc = "done" /\ clean # <<>>) =>
    LET e == clean[1]
        k == itemTitleYearKey(e.title, e.year)
    IN  /\ (~DoiHit /\ TitleYearHit) =>
             (e.hasNotes /\ e.notesCitekey = notesIndex.titleYears[k])
        /\ (~DoiHit /\ ~TitleYearHit /\ KeyHit) =>
             (e.hasNotes /\ e.notesCitekey = item.key)
        /\ DoiHit => (e.hasNotes /\ e.notesCitekey = notesIndex.dois[normDoiApp(item.DOI)])

\* an item with a DOI the index does not know is linked by its title+year
\* key, which differs from its own key
C16_Witness ==
  /\ reconPc = "done"
  /\ clean # <<>>
  /\ item.DOI # NULL
  /\ ~DoiHit
  /\ TitleYearHit
  /\ clean[1].hasNotes
  /\ clean[1].notesCitekey # item.key

\* an item that tiers 1 and 2 miss is linked to its own key
C16_WitnessKey ==
  /\ reconPc = "done"
  /\ clean # <<>>
  /\ ~DoiHit /\ ~TitleYearHit /\ KeyHit
  /\ clean[1].notesCitekey = item.key

\* the keys of the collection set
KnownKeys == {collsData[i].key : i \in 1..Len(collsData)}

\* every parent reference is absent or names a collection of the set
AllParentsKnown ==
  \A i \in 1..Len(collsData) : collsData[i].parentCollection \in KnownKeys \cup {NULL}

\* the collection a known parent reference names
ParentOf(c) == CHOOSE p \in Range(collsData) : p.key = c.parentCollection

\* the breadcrumbs are those of the tree: a collection without a parent in
\* the set has its own name, every other one the breadcrumb of its parent,
\* the separator and its own name
TreeBreadcrumbs ==
  /\ Len(builtPaths) = Len(collsData)
  /\ \A c \in Range(collsData) :
       /\ ObjHas(builtPaths, c.key)
       /\ ObjGet(builtPaths, c.key) =
            IF c.parentCollection \in KnownKeys
              THEN ObjGet(builtPaths, ParentOf(c).key) \o " → " \o c.name
              ELSE c.name

\* C17: on an acyclic collection set in which every parent reference is a
\* known key, the breadcrumb of a collection is the names of its ancestors
\* from the root down to itself, joined by " → ": its own name without a
\* parent, the breadcrumb of the parent followed by its name otherwise.
C17_BreadcrumbFromRoot ==
  (pathPc = "done" /\ AllParentsKnown) => TreeBreadcrumbs

\* the chain root, mid, leaf: the leaf was given the three names in order
C17_Witness ==
  /\ pathPc = "done"
  /\ AllParentsKnown
  /\ \E r, m, l \in Range(collsData) :
       /\ r.parentCollection = NULL
       /\ m.parentCollection = r.key
       /\ l.parentCollection = m.key
       /\ ObjGet(builtPaths, l.key) = r.name \o " → " \o m.name \o " → " \o l.name

\* C18: a parent reference that names no collection of the set truncates
\* the breadcrumb at that point: the collection that holds it has its own
\* name, its descendants the names from it down to themselves;
\* buildCollectionPaths returns a breadcrumb for every collection and the
\* breadcrumbs of the other collections are those of the tree.
C18_UnknownParentTruncates ==
  (pathPc = "done" /\ ~AllParentsKnown) =>
    /\ TreeBreadcrumbs
    /\ \A c \in Range(collsData) :
         c.parentCollection \notin KnownKeys \cup {NULL} => ObjGet(builtPaths, c.key) = c.name

\* a collection two levels below one whose parent is unknown, next to a
\* root: its breadcrumb starts at the last known ancestor
C18_Witness ==
  /\ pathPc = "done"
  /\ \E a, b, c \in Range(collsData) :
       /\ a.parentCollection = UnknownKey
       /\ b.parentCollection = a.key
       /\ c.parentCollection = b.key
       /\ ObjGet(builtPaths, c.key) = a.name \o " → " \o b.name \o " → " \o c.name

\* a key that is one letter
SingleLetter(k) == Len(k) = 1 /\ (k \in UpperSet \/ k \in LowerSet)

\* the sequences of an object's fields, concatenated in key order
RECURSIVE Concatenated(_, _)
Concatenated(fs, n) ==
  IF n = 0 THEN <<>> ELSE Concatenated(fs, n - 1) \o fs[n][2].rows

\* the rows of the three accepted shapes, the empty sequence otherwise
ShapeRows(data) ==
  LET fs == data.fields
      under(k) == {i \in 1..Len(fs) : fs[i][1] = k /\ fs[i][2].isArray}
  IN  IF data.kind = "array" THEN data.rows
      ELSE IF data.kind # "object" THEN <<>>
      ELSE IF under("entries") # {} THEN fs[CHOOSE i \in under("entries") : TRUE][2].rows
      ELSE IF under("items") # {} THEN fs[CHOOSE i \in under("items") : TRUE][2].rows
      ELSE IF /\ fs # <<>>
              /\ \A i \in 1..Len(fs) : fs[i][2].isArray /\ SingleLetter(fs[i][1])
        THEN Concatenated(fs, Len(fs))
      ELSE <<>>

\* C19: flattenIndexJson accepts three shapes: a sequence is returned as
\* it is, an object with a sequence under entries (else items) gives that
\* sequence, an object whose values are all sequences keyed by a single
\* letter gives them concatenated in key order; every other document
\* gives the empty sequence.
C19_ThreeShapes ==
  (reconPc # "index" /\ fetched) => rows = ShapeRows(doc)

\* the text after the last "/" of a link
RECURSIVE AfterLastSlash(_, _)
AfterLastSlash(s, n) ==
  IF n = 0 \/ Ch(s, n) = "/" THEN SubSeq(s, n + 1, Len(s)) ELSE AfterLastSlash(s, n - 1)

\* a segment without a trailing ".html" or ".md", in any case
WithoutHtmlOrMd(seg) ==
  IF Len(seg) >= 5 /\ EqualsIC(SubSeq(seg, Len(seg) - 4, Len(seg)), ".html")
    THEN SubSeq(seg, 1, Len(seg) - 5)
  ELSE IF Len(seg) >= 3 /\ EqualsIC(SubSeq(seg, Len(seg) - 2, Len(seg)), ".md")
    THEN SubSeq(seg, 1, Len(seg) - 3)
  ELSE seg

\* the citekey of a row: its explicit field, else the last segment of its link
RuleCitekey(r) ==
  IF r.slug # NULL THEN r.slug ELSE WithoutHtmlOrMd(AfterLastSlash(r.link, Len(r.link)))

\* C20: the citekey of a row is its explicit citekey/slug field when it
\* has one, otherwise the last path segment of its link with only a
\* trailing ".html" or ".md" removed; a row that gives no citekey adds
\* nothing to keys, dois, titleYears or urlByKey.
C20_RowCitekey ==
  (reconPc # "index" /\ fetched /\ ~notesThrew) =>
    LET cks == {RuleCitekey(rows[i]) : i \in 1..Len(rows)} \ {NULL}
    IN  /\ notesIndex.keys = cks
        /\ DOMAIN notesIndex.urlByKey = cks
        /\ Range(notesIndex.dois) \subseteq cks
        /\ Range(notesIndex.titleYears) \subseteq cks

\* C21: normDoi gives the same value for every spelling of a DOI: in any
\* letter case, with white space around it or repeated inside it, with or
\* without a leading "https://doi.org/", "http://dx.doi.org/" or "doi:";
\* the value is the lower-case DOI, and the copy of the notes loader and
\* the copy of App give the same value. A row and an item that spell the
\* same DOI are therefore linked.
C21_DoiNormalForm ==
  /\ \A c \in DoiCores :
       /\ \A r \in Range(doc.rows) :
            r.doi \in DoiForms(c) => (normDoi(r.doi) = c.norm /\ normDoiApp(r.doi) = c.norm)
       /\ \A d \in Range(items) :
            d.DOI \in DoiForms(c) => (normDoi(d.DOI) = c.norm /\ normDoiApp(d.DOI) = c.norm)
       /\ (reconPc = "done" /\ fetched
              /\ doc.rows[1].doi \in DoiForms(c) /\ item.DOI \in DoiForms(c))
            => (clean[1].hasNotes /\ clean[1].notesCitekey = doc.rows[1].slug)
  /\ \A r \in Range(doc.rows) : normDoi(r.doi) = normDoiApp(r.doi)
  /\ \A d \in Range(items) : normDoi(d.DOI) = normDoiApp(d.DOI)

\* a row that gives its DOI as a URL and an item that gives the same DOI
\* with "DOI:" and in another case are linked
C21_Witness ==
  /\ reconPc = "done"
  /\ fetched
  /\ startsWith(doc.rows[1].doi, "https://doi.org/")
  /\ startsWith(item.DOI, "DOI:")
  /\ toLowerCase(item.DOI) # item.DOI
  /\ SubSeq(doc.rows[1].doi, 17, Len(doc.rows[1].doi)) # SubSeq(item.DOI, 5, Len(item.DOI))
  /\ clean[1].hasNotes
  /\ clean[1].notesCitekey = "smith2020"

\* the family name of a creator, or the full name when none is given
FamilyOrFullName(c) ==
  IF c.lastName # NULL THEN c.lastName
  ELSE IF c.name # NULL THEN c.name
  ELSE c.firstName

\* the names of the creators with the role author among the first n, in
\* the order of the creators; a creator without any name gives none
RECURSIVE AuthorNames(_, _)
AuthorNames(crs, n) ==
  IF n = 0 THEN <<>>
  ELSE AuthorNames(crs, n - 1)
         \o (IF crs[n].creatorType = "author" /\ FamilyOrFullName(crs[n]) # NULL
               THEN <<FamilyOrFullName(crs[n])>> ELSE <<>>)

\* C22: the authors of an entry are, in the order of the creators and
\* with duplicates kept, the family name (the full name when there is no
\* family name) of exactly the creators whose role is "author"; creators
\* of another role never appear.
C22_AuthorsOfEntry ==
  (reconPc = "done" /\ clean # <<>>) =>
    clean[1].authors = AuthorNames(item.creators, Len(item.creators))

\* the same author before and after an editor: both are kept, the editor
\* is not
C22_Witness ==
  /\ reconPc = "done"
  /\ clean # <<>>
  /\ Len(item.creators) = 3
  /\ item.creators[1] = item.creators[3]
  /\ item.creators[1].creatorType = "author"
  /\ item.creators[2].creatorType = "editor"
  /\ Len(clean[1].authors) = 2
  /\ clean[1].authors[1] = clean[1].authors[2]

\* C23: a load is deterministic. Two loads of the same store that got the
\* same annotation index build the same paths, collections, entry lists
\* and counts from the same notes index, and these are what is published
\* once both have completed: nothing depends on what an earlier load left.
C23_LoadDeterministic ==
  \A l, k \in Loads :
    (loadPc[l] = "done" /\ loadPc[k] = "done" /\ lNotesFailed[l] = lNotesFailed[k]) =>
      /\ OutputsOf(l) = OutputsOf(k)
      /\ lNotes[l].value = lNotes[k].value
      /\ (mounted /\ \A j \in Loads :
                       loadPc[j] = "done" /\ lNotesFailed[j] = lNotesFailed[l])
           => <<paths, collections, allEntries, counts>> = OutputsOf(l)

\* both effect runs have completed on a fetched index, and an entry they
\* published is linked to a note
C23_Witness ==
  /\ mounted
  /\ \A l \in Loads : loadPc[l] = "done" /\ ~lNotesFailed[l]
  /\ \E e \in EntriesOf(allEntries) : e.hasNotes /\ e.searchText # NULL

\* the collections of the store that have a parent
WithParent == {c \in Range(storeColls) : c.parentCollection # NULL}

\* the number of digits a label starts with
RECURSIVE LeadingDigits(_, _)
LeadingDigits(label, n) ==
  IF n < Len(label) /\ IsDigit(Ch(label, n + 1)) THEN LeadingDigits(label, n + 1) ELSE n

\* the integer these digits write
RECURSIVE DigitsAsInt(_, _)
DigitsAsInt(label, n) ==
  IF n = 0 THEN 0 ELSE 10 * DigitsAsInt(label, n - 1) + DigitVal(Ch(label, n))

Numbered(label) == LeadingDigits(label, 0) > 0

PrefixOf(label) == DigitsAsInt(label, LeadingDigits(label, 0))

\* the load has built and published the list of pills
PillsPublished ==
  /\ mounted
  /\ loadPc[1] \in {"items", "done"} \/ (loadPc[1] = "caught" /\ lItemsFailed[1])

\* C24: the published collections list holds exactly the collections
\* that have a parent, each once, labelled with its breadcrumb, ordered by
\* the integer its label starts with: a pill with a smaller integer comes
\* first, and the pills without an integer come after all the others.
C24_PillsNumericOrder ==
  PillsPublished =>
    /\ Len(collections) = Cardinality(WithParent)
    /\ {collections[i].key : i \in 1..Len(collections)} = {c.key : c \in WithParent}
    /\ \A i \in 1..Len(collections) :
         collections[i].label = ObjGet(paths, collections[i].key)
    /\ \A i, j \in 1..Len(collections) :
         LET a == collections[i].label
             b == collections[j].label
         IN  /\ (Numbered(a) /\ Numbered(b) /\ PrefixOf(a) < PrefixOf(b)) => i < j
             /\ (Numbered(a) /\ ~Numbered(b)) => i < j

\* the store returned a 12, a 2 and a collection without number in this
\* order, and the pills show the 2, the 12 and then the other one
C24_Witness ==
  /\ PillsPublished
  /\ Len(storeColls) = 3
  /\ \A i \in 1..3 : storeColls[i].parentCollection = UnknownKey
  /\ PrefixOf(storeColls[1].name) = 12
  /\ PrefixOf(storeColls[2].name) = 2
  /\ ~Numbered(storeColls[3].name)
  /\ Len(collections) = 3
  /\ collections[1].key = storeColls[2].key
  /\ collections[2].key = storeColls[1].key
  /\ collections[3].key = storeColls[3].key

\* loadData has started and has not ended
LoadRunning == loadPc[1] \in {"fetching", "items", "hung"}

\* C25: loading is true from the start of loadData until it ends, and
\* for every outcome of the load and every collection set of the store it
\* eventually becomes false and stays false (while App is mounted).
C25_LoadingEnds ==
  /\ []((mounted /\ LoadRunning) => loading)
  /\ <>[](mounted => ~loading)

\* a load ends in the catch block in this step
LoadCaught(l) == loadPc[l] # "caught" /\ loadPc'[l] = "caught"

\* a load ends without an error in this step
LoadDone(l) == loadPc[l] # "done" /\ loadPc'[l] = "done"

\* C26: when fetchCollections or a fetchItems call fails the error is
\* caught and allEntries and counts stay as they were: they change only in
\* the step that ends a load without error, never in a step that fetches one
\* collection of a load, nor in the step in which a load fails.
C26_FailedLoadPublishesNothing ==
  [][/\ (\E l \in Loads : LoadCaught(l)) => (allEntries' = allEntries /\ counts' = counts)
     /\ (allEntries' # allEntries \/ counts' # counts) => \E l \in Loads : LoadDone(l)]_vars

\* a load fetched the items of one collection, failed on the next one, and
\* nothing is published
C26_Witness ==
  /\ mounted
  /\ \E l \in Loads :
       /\ loadPc[l] = "caught"
       /\ lItemsFailed[l]
       /\ lEntryMap[l] # <<>>
       /\ lEntryMap[l][1][2] # <<>>
  /\ allEntries = <<>>
  /\ counts = <<>>

\* the keys of an object
KeysOf(o) == {o[i][1] : i \in 1..Len(o)}

\* a load has ended without error and App showed its result
LoadPublished == mounted /\ \E l \in Loads : loadPc[l] = "done"

\* C27: allEntries and counts have the same keys; after a successful load
\* the keys are the collections with a parent; counts[k] is the number of
\* entries of allEntries[k]; every entry of allEntries[k] has collectionKey k
\* and collectionLabel paths[k].
C27_PublishedMaps ==
  /\ KeysOf(allEntries) = KeysOf(counts)
  /\ LoadPublished => KeysOf(allEntries) = {c.key : c \in WithParent}
  /\ \A k \in KeysOf(allEntries) :
       /\ ObjGet(counts, k) = Len(ObjGet(allEntries, k))
       /\ \A e \in Range(ObjGet(allEntries, k)) :
            /\ e.collectionKey = k
            /\ ObjHas(paths, k)
            /\ e.collectionLabel = ObjGet(paths, k)

\* a root collection and a child of it: the published maps hold the child
\* only, with its entry
C27_Witness ==
  /\ LoadPublished
  /\ \E c \in Range(storeColls) : c.parentCollection = NULL
  /\ KeysOf(allEntries) # {}
  /\ \E k \in KeysOf(allEntries) :
       /\ ObjGet(counts, k) > 0
       /\ ObjGet(allEntries, k)[1].collectionLabel = CollName(1) \o PathSep \o CollName(2)

\* a citekey: a string with at least one character
IsCitekey(v) == v # NULL /\ Len(v) > 0

\* the citekeys the maps of the index refer to
IndexedCitekeys ==
  Range(notesIndex.dois) \cup Range(notesIndex.titleYears) \cup DOMAIN notesIndex.urlByKey

\* C28: every citekey that is a value of dois or of titleYears or a key of
\* urlByKey is a member of keys and a non-empty string; every entry with
\* hasNotes has a notesCitekey that is a member of keys and a non-empty
\* notesUrl.
C28_IndexClosed ==
  /\ \A v \in IndexedCitekeys : v \in notesIndex.keys /\ IsCitekey(v)
  /\ \A k \in notesIndex.keys : IsCitekey(k)
  /\ \A i \in 1..Len(clean) :
       clean[i].hasNotes =>
         /\ clean[i].notesCitekey \in notesIndex.keys
         /\ clean[i].notesUrl # NULL
         /\ Len(clean[i].notesUrl) > 0

\* an index built from a row with a citekey and a row without one, with
\* a DOI and a title+year recorded, and an item that was linked
C28_Witness ==
  /\ reconPc = "done"
  /\ \E i \in 1..Len(rows) : rows[i].isRecord /\ rowCitekey(rows[i]) = NULL /\ rows[i].doi # NULL
  /\ DOMAIN notesIndex.dois # {}
  /\ DOMAIN notesIndex.titleYears # {}
  /\ Len(clean) = 1
  /\ clean[1].hasNotes

\* the search box was edited in this step, to a text that is not empty
EditToText == homePc = "ready" /\ query' # query /\ query' # NULL

\* the state is the one the deep link of the mount gave
FromDeepLink == activeCollection = urlParams.collection /\ query = urlParams.q

\* C29: an edit that sets a non-empty query clears the active collection,
\* so a query whose results are restricted to a collection was not typed but
\* came with the deep link; the search results are shown exactly when the
\* trimmed query is not empty and the pill row exactly when it is empty,
\* never both; and under a restriction every result has the active
\* collection as its collectionKey.
C29_HomeModes ==
  /\ [][EditToText => activeCollection' = NULL]_vars
  /\ []((trim(query) # NULL /\ activeCollection # NULL) => FromDeepLink)
  /\ [](view.search <=> trim(query) # NULL)
  /\ [](view.pills <=> trim(query) = NULL)
  /\ [](view.listing => view.pills)
  /\ [](~(view.search /\ view.pills))
  /\ [](activeCollection # NULL =>
          \A e \in Range(results) : e.collectionKey = activeCollection)

\* a deep link restricts the query to the second collection: the first
\* collection has an entry that matches too, and the results hold only the
\* one of the second
C29_Witness ==
  /\ homePc = "ready"
  /\ activeCollection = CollKey(2)
  /\ trim(query) # NULL
  /\ view.search
  /\ Len(results) > 0
  /\ \E e \in Range(flatOf(hAllEntries)) :
       e.collectionKey = CollKey(1) /\ scoreEntry(e, trim(query)) > 0

\* Home mounted with a collection and a q parameter
DeepLinked == urlParams.collection # NULL /\ urlParams.q # NULL

\* the state and the URL carry the parameters of the deep link
DeepLinkApplied ==
  /\ activeCollection = urlParams.collection
  /\ query = urlParams.q
  /\ url.collection = urlParams.collection
  /\ url.q = trim(urlParams.q)

\* Home mounts in this step
Mounts == homePc = "mount" /\ homePc' = "ready"

\* Home has mounted, with the state of the deep link, and the effect of
\* that render has not run yet
JustMounted == homePc = "ready" /\ urlPending /\ FromDeepLink

\* C30: a mount with collection=c and q=s leads to activeCollection = c and
\* query = s with both parameters in the URL; the effects of every render
\* run, and once they have run the URL has the collection parameter exactly
\* when activeCollection is set, with its key, and the q parameter exactly
\* when the trimmed query is not empty, with the trimmed query as value.
C30_UrlSync ==
  /\ [][(Mounts /\ DeepLinked) => FromDeepLink']_vars
  /\ (JustMounted /\ DeepLinked) ~> DeepLinkApplied
  /\ urlPending ~> ~urlPending
  /\ []((homePc = "ready" /\ ~urlPending) =>
          /\ url.collection = activeCollection
          /\ url.q = trim(query))

\* after a deep link the user typed a query that ends with a space and the
\* effect has run: the URL has the trimmed query and no collection
C30_Witness ==
  /\ DeepLinked
  /\ homePc = "ready"
  /\ ~urlPending
  /\ query # trim(query)
  /\ trim(query) # NULL
  /\ url.q = trim(query)
  /\ url.collection = NULL

=============================================================================
